---- MODULE Spec2Model ----
(***************************************************************************)
(* A model of the two-phase tick loop of the agentsociety-sim-oss traffic  *)
(* simulator: Context.Run drives prepare and update phases over the        *)
(* person, lane, junction and AOI managers.  Lengths are counted in units  *)
(* of 5 metres and one tick is one STEP_INTERVAL.                          *)
(***************************************************************************)
EXTENDS Integers, Sequences, FiniteSets, TLC

\* ---------------------------------------------------------------- bounds
\* clock.END_STEP = START_STEP + TOTAL_STEP of the run that is explored
END_STEP == 6
\* number of list nodes that can be live at the same time
MaxNodes == 10
\* number of SetSchedule requests served during the run
MaxRpc == 1
\* resolution of lcRuntime.CompletedRatio: the ratio is CompletedRatio/RatioDen
RatioDen == 2
\* number of phases of the fixed programs that are installed one by one
MaxPhases == 3
\* number of nodes of the list that is built for PopUnsorted and Merge
MaxLen == 4

\* ---------------------------------------------------------------- the map
nil == "nil"
NoNode == 0
NoList == <<>>
Nodes == 1..MaxNodes
Persons == {1, 2}

Roads == {"R1", "R2"}
DrivingLanes == {"L1", "L2", "JL", "L3", "JX", "JY"}
WalkingLanes == {"W1", "W2"}
Lanes == DrivingLanes \cup WalkingLanes
Junctions == {"J1", "J2", "J3"}
Aois == {"A1", "A2", "A3"}

\* the lanes of junction J4: two driving lanes and a crossing
CrossingLanes == {"JA", "JB", "JW"}

\* a footpath over two crossings: the crossing JU of junction J5, the short
\* walking lane WS of road R3 and the crossing JV of junction J6
FootpathLanes == {"JU", "WS", "JV"}

\* Lane.Type
Type(l) == IF l \in WalkingLanes \cup {"JW"} \cup FootpathLanes THEN "WALKING" ELSE "DRIVING"

\* Lane.ParentRoad: nil for a junction lane
ParentRoad(l) ==
    CASE l \in {"L1", "L2", "W1"} -> "R1"
      [] l \in {"L3", "W2"} -> "R2"
      [] l = "WS" -> "R3"
      [] OTHER -> nil

\* Lane.ParentJunction: nil for a road lane
ParentJunction(l) ==
    CASE l = "JL" -> "J1"
      [] l = "JX" -> "J2"
      [] l = "JY" -> "J3"
      [] l \in CrossingLanes -> "J4"
      [] l = "JU" -> "J5"
      [] l = "JV" -> "J6"
      [] OTHER -> nil

\* Lane.InJunction
InJunction(l) == ParentJunction(l) # nil

\* Lane.Length, in units of 5 m
Length(l) == IF InJunction(l) \/ l = "WS" THEN 1 ELSE 2

\* Lane.OffsetInRoad: 0 is the leftmost driving lane of the road
OffsetInRoad(l) == IF l = "L2" THEN 1 ELSE 0

\* Lane.LeftLane and Lane.RightLane, the same-road neighbours
LeftLane(l) == IF l = "L2" THEN "L1" ELSE nil
RightLane(l) == IF l = "L1" THEN "L2" ELSE nil

\* Lane.UniqueSuccessor of a junction lane
UniqueSuccessor(l) == IF l = "JL" THEN "L3" ELSE nil

\* junction.lanes: the lanes a junction's controller drives
JunctionLanes(j) ==
    CASE j = "J1" -> <<"JL">>
      [] j = "J2" -> <<"JX">>
      [] j = "J4" -> <<"JA", "JB", "JW">>
      [] j = "J5" -> <<"JU">>
      [] j = "J6" -> <<"JV">>
      [] OTHER -> <<"JY">>

\* Lane.ProjectFromLane: clamp(otherS / other.Length * l.Length)
ProjectFromLane(l, other, otherS) ==
    LET s == (otherS * Length(l)) \div Length(other)
    IN  IF s < 0 THEN 0 ELSE IF s > Length(l) THEN Length(l) ELSE s

\* ------------------------------------------------- container.List (part)
\* a list is the sequence of its nodes from head to tail; S maps a node to
\* its key

\* List.PopUnsorted with the comparison weakened to "not below"
RECURSIVE PopUnsortedFrom_notBelow(_, _, _, _)
PopUnsortedFrom_notBelow(rest, kept, popped, S) ==
    IF rest = <<>> THEN [list |-> kept, unsorted |-> popped]
    ELSE LET n == Head(rest)
         IN  IF kept # <<>> /\ S[kept[Len(kept)]] >= S[n]
             THEN PopUnsortedFrom_notBelow(Tail(rest), kept, Append(popped, n), S)
             ELSE PopUnsortedFrom_notBelow(Tail(rest), Append(kept, n), popped, S)

\* List.PopUnsorted: walk from the head and unlink every node whose current
\* predecessor has a larger key
RECURSIVE PopUnsortedFrom(_, _, _, _)
PopUnsortedFrom(rest, kept, popped, S) ==
    IF rest = <<>> THEN [list |-> kept, unsorted |-> popped]
    ELSE LET n == Head(rest)
         IN  IF kept # <<>> /\ S[kept[Len(kept)]] > S[n]
             THEN PopUnsortedFrom(Tail(rest), kept, Append(popped, n), S)
             ELSE PopUnsortedFrom(Tail(rest), Append(kept, n), popped, S)

PopUnsorted(list, S) == PopUnsortedFrom(list, <<>>, <<>>, S)

\* the exchange sort at the head of List.Merge
Swap(a, i, j) == [a EXCEPT ![i] = a[j], ![j] = a[i]]

\* the adds of List.Merge left in the order they were given
SortAdds_asGiven(a, i, j, S) == a

RECURSIVE SortAdds(_, _, _, _)
SortAdds(a, i, j, S) ==
    IF i >= Len(a) THEN a
    ELSE IF j > Len(a) THEN SortAdds(a, i + 1, i + 2, S)
    ELSE IF S[a[i]] > S[a[j]] THEN SortAdds(Swap(a, i, j), i, j + 1, S)
    ELSE SortAdds(a, i, j + 1, S)

InsertAt(list, q, n) ==
    SubSeq(list, 1, q - 1) \o <<n>> \o SubSeq(list, q, Len(list))

\* the cursor of List.Merge: the first node from pos on whose key is not
\* below key, Len(list) + 1 when the cursor runs off the tail
RECURSIVE Advance(_, _, _, _)
Advance(list, pos, key, S) ==
    IF pos <= Len(list) /\ S[list[pos]] < key
    THEN Advance(list, pos + 1, key, S)
    ELSE pos

RECURSIVE MergeSorted(_, _, _, _)
MergeSorted(list, pos, adds, S) ==
    IF adds = <<>> THEN list
    ELSE LET q == Advance(list, pos, S[Head(adds)], S)
         IN  MergeSorted(InsertAt(list, q, Head(adds)), q + 1, Tail(adds), S)

Merge_append(list, adds, S) == list \o adds

\* List.Merge
Merge(list, adds, S) == MergeSorted(list, 1, SortAdds(adds, 1, 2, S), S)

\* ------------------------------------------------------------ the state
VARIABLES
    pc,                 \* where Context.Run stands: "step", "prepare", "update", "closed"
    InternalStep,       \* clock.InternalStep
    DT,                 \* clock.DT: the seconds of one step
    done,               \* the manager calls of the current phase that have returned
    crashed,            \* a panic has ended the process
    runtime,            \* Person.runtime
    snapshot,           \* Person.snapshot
    vehicle,            \* Person.vehicle: node and shadowNode
    pedestrian,         \* Person.pedestrian: node
    schedule,           \* Person.schedule
    newSchedule,        \* Person.newSchedule
    scheduleResetFlag,  \* Person.scheduleResetFlag
    resetPos,           \* Person.resetPos
    close,              \* an external stop has been signaled to sidecar.Step
    multiModalRoute,    \* Person.multiModalRoute
    inflight,           \* the router's unanswered requests, per person
    waiting,            \* the persons whose update is blocked in MultiModalRoute.Wait
    rpcCount,           \* requests served so far
    response,           \* the answers to the requests served in this sidecar.Step
    nodes,              \* the heap of list nodes: key S, parent list, Value
    lanes,              \* Lane: the vehicle and pedestrian laneLists and the light
    aois,               \* Aoi: persons and the add / remove buffers
    trafficLight,       \* Junction.trafficLight: the controller's runtime
    lightWrites,        \* per junction lane, the phases in which SetLight ran this tick
    committed,          \* the snapshots, node keys and vehicle lists as the last prepare left them
    perceived           \* the values each person's update read about other agents

vars == <<pc, InternalStep, DT, done, crashed, runtime, snapshot, vehicle,
          pedestrian, schedule, newSchedule, scheduleResetFlag, resetPos, close,
          multiModalRoute, inflight, waiting, rpcCount, response, nodes, lanes,
          aois, trafficLight, lightWrites, committed, perceived>>

\* lcRuntime{} and runtime.clearLaneChange
noLC == [IsLC |-> FALSE, ShadowLane |-> nil, ShadowS |-> 0, CompletedRatio |-> 0]

\* lcInOldLaneRatio = 0.5 as the fraction lcInOldLaneRatioNum / lcInOldLaneRatioDen
lcInOldLaneRatioNum == 1
lcInOldLaneRatioDen == 2

InShadowLane_whileLC(lc) == lc.IsLC

\* lcRuntime.InShadowLane: IsLC && CompletedRatio < lcInOldLaneRatio
InShadowLane(lc) ==
    lc.IsLC /\ lc.CompletedRatio * lcInOldLaneRatioDen < lcInOldLaneRatioNum * RatioDen

\* VehicleSideLink after Clear: no neighbour behind or ahead on either side
NoLinks == [which \in {"LEFT", "RIGHT"} |-> [BEFORE |-> NoNode, AFTER |-> NoNode]]

\* a node no pointer refers to
freeNode == [S |-> 0, parent |-> NoList, Value |-> 0, links |-> NoLinks]

\* newLaneList
newLaneList == [list |-> <<>>, addBuffer |-> <<>>, removeBuffer |-> <<>>]

KeyOf(nd) == [n \in Nodes |-> nd[n].S]

SeqToSet(q) == {q[i] : i \in 1..Len(q)}

\* ------------------------------------------------------------- laneList
\* the loop over removeBuffer in laneList.prepare: List.Remove unlinks the
\* node and clears its parent, and panics on a node of another list
RECURSIVE RemoveAll(_, _, _, _)
RemoveAll(ll, nd, id, k) ==
    IF k > Len(ll.removeBuffer) THEN [ll |-> ll, nodes |-> nd, panic |-> FALSE]
    ELSE LET n == ll.removeBuffer[k]
         IN  IF nd[n].parent # id
             THEN [ll |-> ll, nodes |-> nd, panic |-> TRUE]
             ELSE RemoveAll([ll EXCEPT !.list = SelectSeq(@, LAMBDA x : x # n)],
                            [nd EXCEPT ![n].parent = NoList], id, k + 1)

\* laneList.prepare: apply the removals, pop the nodes that are out of
\* order, merge them back together with the additions, clear the buffers
laneList_prepare(ll, nd, id) ==
    LET r == RemoveAll(ll, nd, id, 1)
        pop == PopUnsorted(r.ll.list, KeyOf(r.nodes))
        adds == r.ll.addBuffer \o pop.unsorted
        nd1 == [n \in Nodes |->
                  IF n \in SeqToSet(pop.unsorted)
                  THEN [r.nodes[n] EXCEPT !.parent = NoList] ELSE r.nodes[n]]
        bad == \E i \in 1..Len(adds) :
                  \/ nd1[adds[i]].parent # NoList
                  \/ \E j \in 1..Len(adds) : j # i /\ adds[j] = adds[i]
        merged == Merge(pop.list, adds, KeyOf(nd1))
    IN  IF r.panic \/ bad
        THEN [ll |-> ll, nodes |-> nd, panic |-> TRUE]
        ELSE [ll |-> [list |-> merged, addBuffer |-> <<>>, removeBuffer |-> <<>>],
              nodes |-> [n \in Nodes |->
                           IF n \in SeqToSet(adds)
                           THEN [nd1[n] EXCEPT !.parent = id] ELSE nd1[n]],
              panic |-> FALSE]

\* ---------------------------------------------------- positions and trips
\* entity.RoutePosition
Pos(l, s, a) == [Lane |-> l, S |-> s, Aoi |-> a]
NoPos == Pos(nil, 0, nil)

\* the road an AOI's gates lie on
AoiRoad(a) == IF a = "A2" THEN "R2" ELSE "R1"

\* Road.RightestDrivingLane
RightestDrivingLane(r) == IF r = "R1" THEN "L2" ELSE "L3"

\* Aoi.DrivingS: the driving gate of the AOI on its road's rightmost lane
DrivingS(a) == IF a = "A1" THEN 0 ELSE 1

\* Aoi.WalkingS and the walking lane of the gate; A2 has no walking gate
WalkingS(a) == IF a = "A3" THEN 1 ELSE 0

\* Road.ProjectToNearestDrivingLane and Road.ProjectToNearestWalkingLane
ProjectToNearestDrivingLane(l, s) ==
    LET d == RightestDrivingLane(ParentRoad(l))
    IN  Pos(d, ProjectFromLane(d, l, s), nil)

WalkingLaneOf(r) == IF r = "R1" THEN "W1" ELSE "W2"

ProjectToNearestWalkingLane(l, s) ==
    LET w == WalkingLaneOf(ParentRoad(l))
    IN  Pos(w, ProjectFromLane(w, l, s), nil)

\* tripv2.Trip: the mode, the end AOI and the pre-computed road list, if any
Trip(mode, end, routes) == [Mode |-> mode, End |-> end, Routes |-> routes]
NoTrip == Trip("NONE", nil, <<>>)

\* newRoutePosition of a trip's end: an AOI, or the far end of a lane
newRoutePosition(end) ==
    IF end \in Aois THEN [Lane |-> nil, S |-> 0, Aoi |-> end]
    ELSE [Lane |-> end, S |-> Length(end), Aoi |-> nil]

walkA3 == Trip("WALK", "A3", <<>>)
driveA2 == Trip("DRIVE", "A2", <<>>)
driveA2pre == Trip("DRIVE", "A2", <<"R1", "R2">>)
\* a trip by car to the far end of lane L3
driveL3pre == Trip("DRIVE", "L3", <<"R1", "R2">>)

\* Schedule.GetTrip
GetTrip(sch) ==
    IF sch.TripIndex >= Len(sch.base) THEN NoTrip ELSE sch.base[sch.TripIndex + 1]

\* Schedule.NextTrip for one schedule with LoopCount 1; seq counts the trips
\* the person has been through, so that each departure has its own number
NextTrip(sch) ==
    IF Len(sch.base) = 0 THEN sch
    ELSE IF sch.TripIndex + 1 = Len(sch.base)
         THEN [base |-> <<>>, TripIndex |-> 0, seq |-> sch.seq + 1]
         ELSE [sch EXCEPT !.TripIndex = @ + 1, !.seq = @ + 1]

\* Schedule.Set
ScheduleSet(sch, base) == [base |-> base, TripIndex |-> 0, seq |-> sch.seq + 1]

\* Person.checkDeparture: the trips carry no departure or wait time, so the
\* departure time is lastTripEndTime, or INF when the schedule is empty
checkDeparture(sch) == Len(sch.base) # 0

\* ------------------------------------------------------------- the router
\* the road sequence the router finds, <<>> when there is none
DrivingRoads(from, to) ==
    CASE from = to -> <<from>>
      [] from = "R1" /\ to = "R2" -> <<"R1", "R2">>
      [] OTHER -> <<>>

\* the walking segments the router finds: lane and direction
WalkingSegments(start, endAoi) ==
    LET from == IF start.Lane # nil THEN ParentRoad(start.Lane) ELSE AoiRoad(start.Aoi)
        s0 == IF start.Lane # nil THEN start.S ELSE WalkingS(start.Aoi)
        s1 == IF endAoi \in Aois THEN WalkingS(endAoi) ELSE Length(endAoi)
    IN  IF from = "R1" /\ endAoi \in {"A1", "A3", "W1"}
        THEN <<[Lane |-> "W1", forward |-> s0 <= s1]>>
        ELSE <<>>

\* LocalRouter.GetRoute: the journey answered to a request; an answer
\* without roads or segments is the answer "no journey"
NoJourney(type) == [Type |-> type, segs |-> <<>>, roads |-> <<>>]

RouterResponse(type, start, endAoi) ==
    IF type = "DRIVE"
    THEN [Type |-> "DRIVE", segs |-> <<>>,
          roads |-> DrivingRoads(IF start.Lane # nil THEN ParentRoad(start.Lane)
                                 ELSE AoiRoad(start.Aoi),
                                 IF endAoi \in Aois THEN AoiRoad(endAoi)
                                 ELSE ParentRoad(endAoi))]
    ELSE [Type |-> "WALK", roads |-> <<>>, segs |-> WalkingSegments(start, endAoi)]

\* NewVehicleRoute, NewPedestrianRoute, NewMultiModalRoute
newVehicleRoute == [Start |-> NoPos, End |-> NoPos, Roads |-> <<>>,
                    JuncLaneGroups |-> <<>>, AtRoad |-> FALSE]
newPedestrianRoute == [Start |-> NoPos, End |-> NoPos, route |-> <<>>, indexRoute |-> 0]
newMultiModalRoute ==
    [Start |-> NoPos, End |-> NoPos, waitCh |-> 0, ok |-> FALSE,
     MultiModalType |-> "NONE", VehicleRoute |-> newVehicleRoute,
     PedestrianRoute |-> newPedestrianRoute, forTrip |-> 0]

\* VehicleRoute.ProcessInputJourney with processJourneyCommon
VehicleProcessInputJourney(roads, start, end) ==
    LET s == IF start.Lane = nil
             THEN Pos(RightestDrivingLane(roads[1]), DrivingS(start.Aoi), start.Aoi)
             ELSE start
        e == IF end.Lane = nil
             THEN Pos(RightestDrivingLane(roads[Len(roads)]), DrivingS(end.Aoi), end.Aoi)
             ELSE end
    IN  [Start |-> s, End |-> e, Roads |-> roads,
         JuncLaneGroups |-> [i \in 1..(Len(roads) - 1) |-> <<roads[i], roads[i + 1]>>],
         AtRoad |-> TRUE]

\* PedestrianRoute.ProcessInputJourney
PedestrianProcessInputJourney(segs, start, end) ==
    LET s == IF start.Lane = nil
             THEN Pos(segs[1].Lane, WalkingS(start.Aoi), start.Aoi) ELSE start
        e == IF end.Lane = nil
             THEN Pos(segs[Len(segs)].Lane, WalkingS(end.Aoi), end.Aoi) ELSE end
    IN  [Start |-> s, End |-> e, route |-> segs, indexRoute |-> 0]

\* MultiModalRoute.ProcessRouting: an answer without a journey leaves the
\* route not ok; otherwise the first journey becomes the current route.
\* tag is the trip number the answer was requested for.
ProcessRouting(mr, res, tag) ==
    IF (res.Type = "DRIVE" /\ res.roads = <<>>) \/ (res.Type = "WALK" /\ res.segs = <<>>)
    THEN [mr EXCEPT !.ok = FALSE]
    ELSE IF res.Type = "WALK"
    THEN [mr EXCEPT !.ok = TRUE, !.MultiModalType = "WALK", !.forTrip = tag,
             !.PedestrianRoute = PedestrianProcessInputJourney(res.segs, mr.Start, mr.End)]
    ELSE [mr EXCEPT !.ok = TRUE, !.MultiModalType = "DRIVE", !.forTrip = tag,
             !.VehicleRoute = VehicleProcessInputJourney(res.roads, mr.Start, mr.End)]

\* --------------------------------------------- the state one update works on
\* A person's update is evaluated over a record st holding the fields it can
\* write: its runtime rt, its vehicle veh and pedestrian ped node pointers, its
\* schedule sch, its route mr, its unanswered requests infl, and the shared
\* node heap, lanes and aois.  st.panic records that the handler panicked.

Panic(st) == [st EXCEPT !.panic = TRUE]

\* the nodes person p allocates from
Pool(p) == {n \in Nodes : n % 2 = p % 2}

FreeNodes(nd, p) == {n \in Pool(p) : nd[n].Value = 0}

\* newVehicleNode / newPedestrianNode: a node with key s and value p
FreshNode(nd, p) == CHOOSE n \in FreeNodes(nd, p) : \A m \in FreeNodes(nd, p) : n <= m

NewNode(nd, n, s, p) ==
    [nd EXCEPT ![n] = [S |-> s, parent |-> NoList, Value |-> p, links |-> NoLinks]]

laneList_add_direct(st, l, kind, n) ==
    IF st.panic THEN st
    ELSE IF l = nil \/ n = NoNode THEN Panic(st)
    ELSE IF st.nodes[n].parent # NoList THEN Panic(st)
    ELSE [st EXCEPT !.lanes[l][kind].list = Append(@, n),
                    !.nodes[n].parent = <<l, kind>>]

\* laneList.add behind Lane.AddVehicle and Lane.AddPedestrian
laneList_add(st, l, kind, n) ==
    IF st.panic THEN st
    ELSE IF l = nil \/ n = NoNode THEN Panic(st)
    ELSE IF st.nodes[n].parent # NoList THEN Panic(st)
    ELSE [st EXCEPT !.lanes[l][kind].addBuffer = Append(@, n)]

\* laneList.remove behind Lane.RemoveVehicle and Lane.RemovePedestrian
laneList_remove(st, l, kind, n) ==
    IF st.panic THEN st
    ELSE IF l = nil \/ n = NoNode THEN Panic(st)
    ELSE IF st.nodes[n].parent # <<l, kind>> THEN Panic(st)
    ELSE [st EXCEPT !.lanes[l][kind].removeBuffer = Append(@, n)]

AddVehicle(st, l, n) == laneList_add(st, l, "vehicles", n)
RemoveVehicle(st, l, n) == laneList_remove(st, l, "vehicles", n)
AddPedestrian(st, l, n) == laneList_add(st, l, "pedestrians", n)
RemovePedestrian(st, l, n) == laneList_remove(st, l, "pedestrians", n)

\* Aoi.AddPerson and Aoi.RemovePerson
AoiAddPerson(st, a, p) ==
    IF st.panic THEN st ELSE [st EXCEPT !.aois[a].addPersonBuffer = Append(@, p)]
AoiRemovePerson(st, a, p) ==
    IF st.panic THEN st ELSE [st EXCEPT !.aois[a].removePersonBuffer = Append(@, p)]

\* Person.updateLaneVehicleNodes
updateLaneVehicleNodes(st, sn, p, needIndexMaintenance) ==
    IF st.panic THEN st
    ELSE IF needIndexMaintenance
    THEN LET s1 == IF sn.Lane # st.rt.Lane
                   THEN LET r == RemoveVehicle(st, sn.Lane, st.veh.node)
                            n == FreshNode(r.nodes, p)
                        IN  IF r.panic THEN r
                            ELSE AddVehicle([r EXCEPT !.nodes = NewNode(@, n, st.rt.S, p),
                                                      !.veh.node = n],
                                            st.rt.Lane, n)
                   ELSE st
             snIn == InShadowLane(sn.LC)
             rtIn == InShadowLane(st.rt.LC)
         IN  IF s1.panic THEN s1
             ELSE IF ~snIn /\ ~rtIn THEN s1
             ELSE IF snIn /\ ~rtIn
             THEN RemoveVehicle(s1, sn.LC.ShadowLane, s1.veh.shadowNode)
             ELSE IF ~snIn /\ rtIn
             THEN AddVehicle(s1, s1.rt.LC.ShadowLane, s1.veh.shadowNode)
             ELSE IF sn.LC.ShadowLane # s1.rt.LC.ShadowLane
             THEN LET r == RemoveVehicle(s1, sn.LC.ShadowLane, s1.veh.shadowNode)
                      n == FreshNode(r.nodes, p)
                  IN  IF r.panic THEN r
                      ELSE AddVehicle([r EXCEPT !.nodes = NewNode(@, n, s1.rt.LC.ShadowS, p),
                                                !.veh.shadowNode = n],
                                      s1.rt.LC.ShadowLane, n)
             ELSE s1
    ELSE LET r == RemoveVehicle(st, sn.Lane, st.veh.node)
         IN  IF InShadowLane(sn.LC)
             THEN RemoveVehicle(r, sn.LC.ShadowLane, r.veh.shadowNode)
             ELSE r

updateComeIn_keepLane(st, p, endAoi) ==
    IF st.panic THEN st
    ELSE LET s1 == AoiAddPerson(st, endAoi, p)
         IN  [s1 EXCEPT !.rt.Aoi = endAoi, !.rt.Status = "SLEEP"]

\* Person.updateComeIn
updateComeIn(st, p, endAoi) ==
    IF st.panic THEN st
    ELSE LET s1 == AoiAddPerson(st, endAoi, p)
         IN  [s1 EXCEPT !.rt.Aoi = endAoi, !.rt.Status = "SLEEP",
                        !.rt.Lane = nil, !.rt.S = 0]

\* Person.updateGoOut
updateGoOut(st, sn, p) ==
    IF st.panic THEN st
    ELSE IF st.mr.MultiModalType = "DRIVE"
    THEN LET start == st.mr.VehicleRoute.Start
             s1 == IF st.rt.Aoi # nil THEN AoiRemovePerson(st, st.rt.Aoi, p) ELSE st
             s2 == [s1 EXCEPT !.rt.Status = "DRIVING", !.rt.Lane = start.Lane,
                              !.rt.S = start.S, !.rt.LC = noLC, !.rt.Aoi = nil]
         IN  IF start.Lane = nil THEN Panic(s2)
             ELSE IF sn.Lane = nil \/ (s2.veh.node = NoNode /\ s2.veh.shadowNode = NoNode)
             THEN LET n1 == FreshNode(s2.nodes, p)
                      nd1 == NewNode(s2.nodes, n1, s2.rt.S, p)
                      n2 == FreshNode(nd1, p)
                      nd2 == NewNode(nd1, n2, s2.rt.S, p)
                  IN  AddVehicle([s2 EXCEPT !.nodes = nd2, !.veh = [node |-> n1, shadowNode |-> n2]],
                                 s2.rt.Lane, n1)
             ELSE IF s2.veh.node = NoNode THEN Panic(s2)
             ELSE IF s2.nodes[s2.veh.node].parent = NoList
             THEN AddVehicle(s2, s2.rt.Lane, s2.veh.node)
             ELSE updateLaneVehicleNodes(s2, sn, p, TRUE)
    ELSE IF st.mr.MultiModalType = "WALK"
    THEN LET start == st.mr.PedestrianRoute.Start
             s1 == IF st.rt.Aoi # nil THEN AoiRemovePerson(st, st.rt.Aoi, p) ELSE st
             s2 == [s1 EXCEPT !.rt.Status = "WALKING", !.rt.Lane = start.Lane,
                              !.rt.S = start.S, !.rt.Aoi = nil]
             n == FreshNode(s2.nodes, p)
         IN  IF start.Lane = nil THEN Panic(s2)
             ELSE AddPedestrian([s2 EXCEPT !.nodes = NewNode(@, n, s2.rt.S, p), !.ped.node = n],
                                s2.rt.Lane, n)
    ELSE Panic(st)

\* MultiModalRoute.isValidPreRoute for a driving pre-route
isValidPreRoute(trip, start) ==
    /\ Len(trip.Routes) # 0
    /\ start.Lane # nil => ParentRoad(start.Lane) = trip.Routes[1]

\* MultiModalRoute.ProduceRouting: a valid pre-route is processed at once and
\* leaves no channel to wait on; otherwise the request goes to the router and
\* waitCh is the channel of that request
ProduceRouting(st, trip, start) ==
    LET m1 == [st.mr EXCEPT !.Start = start, !.End = newRoutePosition(trip.End), !.ok = FALSE]
    IN  IF isValidPreRoute(trip, start)
        THEN [st EXCEPT !.mr = [ProcessRouting(m1, [Type |-> "DRIVE", segs |-> <<>>,
                                                     roads |-> trip.Routes], st.sch.seq)
                                 EXCEPT !.waitCh = 0]]
        ELSE [st EXCEPT !.mr = [m1 EXCEPT !.waitCh = st.sch.seq],
                        !.infl = @ \cup {[ch |-> st.sch.seq, Type |-> trip.Mode,
                                          Start |-> start, End |-> trip.End]}]

\* Person.requestRoute
requestRoute(st, sn, p) ==
    LET trip == GetTrip(st.sch)
        lane == st.rt.Lane
    IN  IF st.panic THEN st
        ELSE IF (lane # nil /\ st.rt.Aoi # nil) \/ (lane = nil /\ st.rt.Aoi = nil)
        THEN Panic(st)
        ELSE IF st.mr.ok THEN st
        ELSE IF trip.Mode \notin {"DRIVE", "WALK"} THEN Panic(st)
        ELSE IF lane = nil
        THEN ProduceRouting(st, trip, Pos(nil, 0, st.rt.Aoi))
        ELSE IF trip.Mode = "DRIVE" /\ Type(lane) # "DRIVING"
        THEN ProduceRouting(st, trip, ProjectToNearestDrivingLane(lane, st.rt.S))
        ELSE IF trip.Mode = "WALK" /\ Type(lane) # "WALKING" /\ ParentRoad(lane) # nil
        THEN ProduceRouting(st, trip, ProjectToNearestWalkingLane(lane, st.rt.S))
        ELSE IF trip.Mode = "WALK" /\ Type(lane) # "WALKING"
        THEN \* a driving lane inside a junction: the successor road lane at 0
             LET s1 == IF sn.Status # "SLEEP" /\ ~st.rt.IsTripEnd
                       THEN updateLaneVehicleNodes(st, sn, p, FALSE) ELSE st
             IN  IF s1.panic THEN s1
                 ELSE ProduceRouting(s1, trip,
                        ProjectToNearestDrivingLane(UniqueSuccessor(lane), 0))
        ELSE ProduceRouting(st, trip, Pos(lane, st.rt.S, nil))

routeSuccessful_sameTrip(st) == [st EXCEPT !.mr.waitCh = 0]

\* Person.routeSuccessful once MultiModalRoute.Wait has returned
routeSuccessful(st) ==
    LET s1 == [st EXCEPT !.mr.waitCh = 0]
    IN  IF s1.mr.ok THEN s1 ELSE [s1 EXCEPT !.sch = NextTrip(@)]

\* JunctionCandidate of a pair of roads: the junction lanes and their
\* predecessors
GroupLanes(g) == <<"JL">>
GroupPreLanes(g) == <<"L2">>

\* VehicleRoute.GetLCScan: "panic" when the route is not at a road or the lane
\* is not on the route's current road; otherwise whether the lane leads into
\* the next junction (or is the end lane) and, if not, the side to change to
GetLCScan(vr, lane) ==
    IF ~vr.AtRoad \/ vr.Roads = <<>> THEN [panic |-> TRUE, InCandidate |-> FALSE, Side |-> nil]
    ELSE IF ParentRoad(lane) # vr.Roads[1]
    THEN [panic |-> TRUE, InCandidate |-> FALSE, Side |-> nil]
    ELSE LET lo == IF vr.JuncLaneGroups = <<>> THEN OffsetInRoad(vr.End.Lane)
                   ELSE OffsetInRoad(GroupPreLanes(vr.JuncLaneGroups[1])[1])
             hi == IF vr.JuncLaneGroups = <<>> THEN OffsetInRoad(vr.End.Lane)
                   ELSE LET pre == GroupPreLanes(vr.JuncLaneGroups[1])
                        IN  OffsetInRoad(pre[Len(pre)])
             off == OffsetInRoad(lane)
         IN  [panic |-> FALSE,
              InCandidate |-> lo <= off /\ off <= hi,
              Side |-> IF off > hi THEN "LEFT" ELSE IF off < lo THEN "RIGHT" ELSE nil]

\* VehicleRoute.Next without the toggle of AtRoad
VehicleRouteNext_noToggle(vr, curLane) ==
    IF vr.AtRoad
    THEN LET lc == GetLCScan(vr, curLane)
         IN  IF lc.panic THEN [panic |-> TRUE, lane |-> nil, vr |-> vr]
             ELSE IF vr.JuncLaneGroups = <<>>
             THEN [panic |-> FALSE, lane |-> nil, vr |-> vr]
             ELSE LET ls == GroupLanes(vr.JuncLaneGroups[1])
                  IN  [panic |-> FALSE,
                       lane |-> IF ~lc.InCandidate /\ lc.Side = "LEFT" THEN ls[Len(ls)]
                                ELSE ls[1],
                       vr |-> [vr EXCEPT !.Roads = Tail(@)]]
    ELSE IF UniqueSuccessor(curLane) = nil \/ vr.JuncLaneGroups = <<>>
    THEN [panic |-> TRUE, lane |-> nil, vr |-> vr]
    ELSE [panic |-> FALSE, lane |-> UniqueSuccessor(curLane),
          vr |-> [vr EXCEPT !.JuncLaneGroups = Tail(@)]]

\* VehicleRoute.Next: the lane after curLane, nil at the end of the route
VehicleRouteNext(vr, curLane) ==
    IF vr.AtRoad
    THEN LET lc == GetLCScan(vr, curLane)
         IN  IF lc.panic THEN [panic |-> TRUE, lane |-> nil, vr |-> vr]
             ELSE IF vr.JuncLaneGroups = <<>>
             THEN [panic |-> FALSE, lane |-> nil, vr |-> vr]
             ELSE LET ls == GroupLanes(vr.JuncLaneGroups[1])
                  IN  [panic |-> FALSE,
                       lane |-> IF ~lc.InCandidate /\ lc.Side = "LEFT" THEN ls[Len(ls)]
                                ELSE ls[1],
                       vr |-> [vr EXCEPT !.Roads = Tail(@), !.AtRoad = FALSE]]
    ELSE IF UniqueSuccessor(curLane) = nil \/ vr.JuncLaneGroups = <<>>
    THEN [panic |-> TRUE, lane |-> nil, vr |-> vr]
    ELSE [panic |-> FALSE, lane |-> UniqueSuccessor(curLane),
          vr |-> [vr EXCEPT !.JuncLaneGroups = Tail(@), !.AtRoad = TRUE]]

\* the loop of driveStraightAndRefreshLocation: step over lane ends
RECURSIVE DriveLoop(_, _, _)
DriveLoop(vr, lane, s) ==
    IF s <= Length(lane) THEN [panic |-> FALSE, skipToEnd |-> FALSE, lane |-> lane, s |-> s, vr |-> vr]
    ELSE LET nx == VehicleRouteNext(vr, lane)
         IN  IF nx.panic
             THEN [panic |-> TRUE, skipToEnd |-> FALSE, lane |-> lane, s |-> s, vr |-> vr]
             ELSE IF nx.lane = nil
             THEN [panic |-> FALSE, skipToEnd |-> TRUE, lane |-> lane, s |-> s, vr |-> nx.vr]
             ELSE DriveLoop(nx.vr, nx.lane, s - Length(lane))

\* closeToEnd = 5 m, one length unit
closeToEnd == 1

\* the lane changes planLaneChange can command from a lane: none while
\* changing lanes or inside a junction, none out of the candidate lanes, and
\* otherwise only towards them
LCTargets(rt, vr) ==
    IF rt.LC.IsLC \/ InJunction(rt.Lane) THEN {nil}
    ELSE LET lc == GetLCScan(vr, rt.Lane)
         IN  IF lc.panic \/ lc.InCandidate THEN {nil}
             ELSE IF lc.Side = "LEFT" THEN {nil, LeftLane(rt.Lane)}
             ELSE {nil, RightLane(rt.Lane)}

\* Person.refreshRuntime, the commanded lane change: a vehicle that is not
\* changing lanes moves onto the target lane and leaves its shadow behind
startLaneChange(rt, target) ==
    IF target # nil /\ ~rt.LC.IsLC
    THEN [rt EXCEPT !.LC = [IsLC |-> TRUE, ShadowLane |-> rt.Lane,
                            ShadowS |-> 0, CompletedRatio |-> 0],
                    !.S = ProjectFromLane(target, rt.Lane, rt.S),
                    !.Lane = target]
    ELSE rt

\* Person.driveStraightAndRefreshLocation, d being the outcome of its loop:
\* running over the lane end clears the lane change; the position is only
\* written when the route goes on
driveStraightAndRefreshLocation(rt, d, ds) ==
    IF rt.S + ds > Length(rt.Lane)
    THEN IF d.skipToEnd THEN [rt EXCEPT !.LC = noLC]
         ELSE [rt EXCEPT !.LC = noLC, !.Lane = d.lane, !.S = d.s]
    ELSE [rt EXCEPT !.Lane = d.lane, !.S = d.s]

\* Person.refreshRuntime, the lane change state after the move: complete at
\* ratio 1, else the new ratio and the shadow position
advanceLaneChange(rt, dr) ==
    IF ~rt.LC.IsLC THEN rt
    ELSE IF rt.LC.CompletedRatio + dr >= RatioDen THEN [rt EXCEPT !.LC = noLC]
    ELSE [rt EXCEPT !.LC.CompletedRatio = @ + dr,
                    !.LC.ShadowS = ProjectFromLane(rt.LC.ShadowLane, rt.Lane, rt.S)]

\* Person.refreshRuntime from the lane change on: rt1 is the runtime after
\* the commanded lane change and d the outcome of the drive loop
refreshRuntimeMoved(st, rt1, d, ds, dr) ==
    IF d.panic THEN [st |-> Panic(st), skipToEnd |-> FALSE]
    ELSE [st |-> [st EXCEPT
                    !.rt = [advanceLaneChange(driveStraightAndRefreshLocation(rt1, d, ds), dr)
                            EXCEPT !.V = IF ds > 0 THEN 1 ELSE 0],
                    !.mr.VehicleRoute = d.vr],
          skipToEnd |-> d.skipToEnd]

refreshRuntimeFrom(st, rt1, ds, dr) ==
    refreshRuntimeMoved(st, rt1, DriveLoop(st.mr.VehicleRoute, rt1.Lane, rt1.S + ds), ds, dr)

\* Person.refreshRuntime: start the commanded lane change, move ds forward
\* along the route, advance the lane change by dr, set the speed
refreshRuntime(st, target, ds, dr) ==
    IF st.panic THEN [st |-> st, skipToEnd |-> FALSE]
    ELSE refreshRuntimeFrom(st, startLaneChange(st.rt, target), ds, dr)

\* Person.checkCloseToEndAndRefreshRuntime
checkCloseToEnd(st, skipToEnd) ==
    LET end == st.mr.VehicleRoute.End
    IN  skipToEnd \/ (ParentRoad(st.rt.Lane) = ParentRoad(end.Lane)
                      /\ end.S - st.rt.S <= closeToEnd)

driveEnd_walkOn(st, p, end) ==
    [st EXCEPT !.sch = NextTrip(@), !.rt.Status = "WALKING"]

\* the DRIVING branch of Person.update once updateVehicle has returned true:
\* NextTrip, then into the end AOI or asleep on the lane
driveEnd(st, p, end) ==
    IF end.Aoi # nil THEN updateComeIn([st EXCEPT !.sch = NextTrip(@)], p, end.Aoi)
    ELSE [st EXCEPT !.sch = NextTrip(@), !.rt.Status = "SLEEP"]

\* the part of Person.update after updateVehicle: s3 is the state
\* updateLaneVehicleNodes left
driveFinish(st, s3, p, isEnd) ==
    IF s3.panic THEN Panic(st)
    ELSE IF ~isEnd THEN [s3 EXCEPT !.rt.IsTripEnd = FALSE]
    ELSE driveEnd([s3 EXCEPT !.rt.IsTripEnd = TRUE], p, s3.mr.VehicleRoute.End)

\* Person.checkCloseToEndAndRefreshRuntime, the runtime it leaves when the
\* target is reached
reachTarget(st) ==
    [st EXCEPT !.rt.Lane = st.mr.VehicleRoute.End.Lane,
               !.rt.S = st.mr.VehicleRoute.End.S, !.rt.V = 0, !.rt.LC = noLC]

\* Person.updateVehicle without the forced end of the last step
driveReached_reachOnly(st, s1, sn, p, reach, forceEnd) ==
    driveFinish(st,
                updateLaneVehicleNodes(IF reach THEN reachTarget(s1) ELSE s1,
                                       sn, p, ~reach),
                p, reach)

\* Person.updateVehicle from checkCloseToEndAndRefreshRuntime on
driveReached(st, s1, sn, p, reach, forceEnd) ==
    driveFinish(st,
                updateLaneVehicleNodes(IF reach THEN reachTarget(s1) ELSE s1,
                                       sn, p, ~(reach \/ forceEnd)),
                p, reach \/ forceEnd)

driveMoved(st, r, sn, p, forceEnd) ==
    IF r.st.panic THEN Panic(st)
    ELSE driveReached(st, r.st, sn, p, checkCloseToEnd(r.st, r.skipToEnd), forceEnd)

\* Person.updateVehicle and the DRIVING branch of Person.update; forceEnd is
\* InternalStep + 1 = END_STEP
updateVehicle(st, sn, p, target, ds, dr, forceEnd) ==
    IF st.panic THEN st
    ELSE IF InShadowLane(st.rt.LC)
            /\ (st.veh.shadowNode = NoNode \/ st.nodes[st.veh.shadowNode].parent = NoList)
    THEN Panic(st)
    ELSE IF ~st.rt.LC.IsLC /\ ~InJunction(st.rt.Lane)
            /\ GetLCScan(st.mr.VehicleRoute, st.rt.Lane).panic
    THEN Panic(st)
    ELSE driveMoved(st,
                    refreshRuntime(IF forceEnd THEN [st EXCEPT !.rt.LC = noLC] ELSE st,
                                   IF forceEnd THEN nil ELSE target, ds, dr),
                    sn, p, forceEnd)


\* pedestrian.walkingV, length units per tick
walkingV == 1

IsNoEntry_never(ls, l) == FALSE

\* Lane.IsNoEntry
IsNoEntry(ls, l) == InJunction(l) /\ ls[l].lightState # "GREEN"

\* the loop of Person.updatePedestrian: walk over segment ends until s lies
\* on the current lane, halting in front of a segment that is closed
RECURSIVE WalkLoop(_, _, _, _)
WalkLoop(ls, pr, lane, s) ==
    IF ~(s < 0 \/ s > Length(lane))
    THEN [halt |-> FALSE, isEnd |-> FALSE, pr |-> pr, lane |-> lane, s |-> s]
    ELSE IF pr.indexRoute + 1 < Len(pr.route)
            /\ IsNoEntry(ls, pr.route[pr.indexRoute + 2].Lane)
    THEN [halt |-> TRUE, isEnd |-> FALSE, pr |-> pr, lane |-> lane, s |-> s]
    ELSE IF pr.indexRoute + 1 >= Len(pr.route)
    THEN [halt |-> FALSE, isEnd |-> TRUE, pr |-> pr, lane |-> lane, s |-> s]
    ELSE LET over == IF s < 0 THEN 0 - s ELSE s - Length(lane)
             seg == pr.route[pr.indexRoute + 2]
         IN  WalkLoop(ls, [pr EXCEPT !.indexRoute = @ + 1], seg.Lane,
                      IF seg.forward THEN over ELSE Length(seg.Lane) - over)

\* Person.updatePedestrian and the WALKING branch of Person.update
updatePedestrian(st, sn, p) ==
    IF st.panic THEN st
    ELSE IF st.mr.PedestrianRoute.route = <<>> THEN Panic(st)
    ELSE
    LET pr0 == st.mr.PedestrianRoute
        seg0 == pr0.route[pr0.indexRoute + 1]
        v == IF IsNoEntry(st.lanes, st.rt.Lane) THEN 2 * walkingV ELSE walkingV
        w == WalkLoop(st.lanes, pr0, st.rt.Lane,
                      IF seg0.forward THEN sn.S + v ELSE sn.S - v)
        seg == w.pr.route[w.pr.indexRoute + 1]
        atLast == w.pr.indexRoute + 1 >= Len(w.pr.route)
        isEnd == IF atLast
                 THEN (IF seg.forward THEN w.s >= w.pr.End.S ELSE w.s <= w.pr.End.S)
                 ELSE w.isEnd
        s == IF w.s < 0 THEN 0 ELSE IF w.s > Length(w.lane) THEN Length(w.lane) ELSE w.s
        s1 == [st EXCEPT !.mr.PedestrianRoute = w.pr]
    IN  IF w.halt THEN [s1 EXCEPT !.rt.V = 0, !.rt.IsTripEnd = FALSE]
        ELSE IF isEnd
        THEN LET last == w.pr.route[Len(w.pr.route)].Lane
                 s2 == RemovePedestrian([s1 EXCEPT !.rt.Lane = last, !.rt.S = w.pr.End.S,
                                                   !.rt.IsTripEnd = TRUE],
                                        sn.Lane, st.ped.node)
                 s3 == IF s2.panic THEN s2 ELSE [s2 EXCEPT !.sch = NextTrip(@)]
             IN  IF w.pr.End.Aoi # nil THEN updateComeIn(s3, p, w.pr.End.Aoi)
                 ELSE IF s3.panic THEN s3 ELSE [s3 EXCEPT !.rt.Status = "SLEEP"]
        ELSE LET s2 == [s1 EXCEPT !.rt.Lane = seg.Lane, !.rt.S = s, !.rt.V = v,
                                  !.rt.IsTripEnd = FALSE]
             IN  IF sn.Lane # s2.rt.Lane
                 THEN LET r == RemovePedestrian(s2, sn.Lane, s2.ped.node)
                          n == FreshNode(r.nodes, p)
                      IN  IF r.panic THEN r
                          ELSE AddPedestrian([r EXCEPT !.nodes = NewNode(@, n, s2.rt.S, p),
                                                       !.ped.node = n],
                                             s2.rt.Lane, n)
                 ELSE s2

\* runtime.resetByPbPosition: the zero runtime, asleep at the position
resetByPbPosition(pos) ==
    [Status |-> "SLEEP", IsTripEnd |-> FALSE, V |-> 0,
     Lane |-> pos.Lane, S |-> IF pos.Lane # nil THEN pos.S ELSE 0,
     Aoi |-> IF pos.Lane # nil THEN nil ELSE pos.Aoi, LC |-> noLC]

\* Person.update, the check of resetPos before the switch: a reset position
\* of a person that is not asleep is dropped
checkResetPos(st) ==
    IF st.reset # NoPos /\ st.rt.Status # "SLEEP" THEN [st EXCEPT !.reset = NoPos]
    ELSE st

\* Person.update, the head of the SLEEP branch: leave the AOI, take the
\* reset position, enter its AOI
applyResetPos(st, p) ==
    IF st.reset = NoPos THEN st
    ELSE LET s1 == IF st.rt.Aoi # nil THEN AoiRemovePerson(st, st.rt.Aoi, p) ELSE st
             s2 == [s1 EXCEPT !.rt = resetByPbPosition(st.reset)]
             s3 == IF s2.rt.Aoi # nil THEN AoiAddPerson(s2, s2.rt.Aoi, p) ELSE s2
         IN  [s3 EXCEPT !.reset = NoPos]

\* Person.update, the departure of the SLEEP branch
updateSleep(st, sn, p) ==
    IF checkDeparture(st.sch)
    THEN LET r == requestRoute(st, sn, p)
         IN  IF r.panic THEN r ELSE [r EXCEPT !.rt.Status = "WAIT_ROUTE"]
    ELSE st

\* Person.update, the switch on the status
PersonUpdateSwitch(st, sn, p, target, ds, dr, forceEnd) ==
    CASE st.rt.Status = "SLEEP" -> updateSleep(applyResetPos(st, p), sn, p)
      [] st.rt.Status = "WAIT_ROUTE" ->
           LET r == routeSuccessful(st)
           IN  IF ~r.mr.ok THEN [r EXCEPT !.rt.Status = "SLEEP"]
               ELSE updateGoOut(r, sn, p)
      [] st.rt.Status = "WALKING" -> updatePedestrian(st, sn, p)
      [] st.rt.Status = "DRIVING" -> updateVehicle(st, sn, p, target, ds, dr, forceEnd)
      [] OTHER -> Panic(st)

\* Person.update for a person that is not blocked
PersonUpdateBody(st, sn, p, target, ds, dr, forceEnd) ==
    PersonUpdateSwitch(checkResetPos(st), sn, p, target, ds, dr, forceEnd)

\* ------------------------------------------------------------ junctions
\* the fixed program of junction J1: phase durations in seconds and the state
\* of its one lane in each phase
FixedProgram == <<[Duration |-> 2, States |-> <<"GREEN">>],
                  [Duration |-> 1, States |-> <<"RED">>]>>

\* mathutil.INF
INF == 1000000

\* the flags of the Max-Pressure controller, in seconds
yellowTime == 3
pedestrianClearTime == 5
allRedTime == 3
phaseTime == 15
maxRepeatCount == 6

\* the flags as the command line leaves them when it sets none
mpFlags == [yellowTime |-> yellowTime, pedestrianClearTime |-> pedestrianClearTime,
            allRedTime |-> allRedTime, phaseTime |-> phaseTime,
            maxRepeatCount |-> maxRepeatCount]

\* localTlRuntime
localTlRuntime(hasTl, step, remaining) ==
    [tl |-> hasTl, tlStep |-> step, tlTotalTime |-> 0, tlRemainingT |-> remaining]
NoBuffer == [tl |-> FALSE, tlStep |-> -1, tlTotalTime |-> 0, tlRemainingT |-> 0]

\* mpTlRuntime
mpTlRuntime(phases) ==
    [phases |-> phases, index |-> 0, repeatCount |-> 0, totalTime |-> 0,
     remainingT |-> 0, transitionPhases |-> <<>>, transitionTimes |-> <<>>,
     nextIndex |-> 0]

\* the phases junction J2 and junction J4 offer the Max-Pressure controller;
\* the lanes of J4 are JA, JB and the crossing JW
AvailablePhases == <<<<"GREEN">>>>
CrossingPhases == <<<<"GREEN", "RED", "GREEN">>, <<"RED", "GREEN", "RED">>>>

\* newJunction: J1 has a fixed program and gets the fixed-program controller,
\* whose Set call leaves the program in the buffer; J2 and J4 have no fixed
\* program but available phases and get the Max-Pressure controller; J3 has
\* neither and gets no controller
newJunction(j) ==
    CASE j = "J1" ->
           [kind |-> "local", timeBeforeChange |-> <<>>,
            snapshot |-> localTlRuntime(FALSE, 0, 0),
            runtime |-> localTlRuntime(FALSE, 0, 0),
            buffer |-> localTlRuntime(TRUE, 0, FixedProgram[1].Duration),
            ok |-> TRUE, okBuffer |-> TRUE]
      [] j = "J2" ->
           [kind |-> "mp", runtime |-> mpTlRuntime(AvailablePhases),
            snapshotRemainingT |-> 0, ok |-> TRUE, okBuffer |-> TRUE]
      [] j = "J4" ->
           [kind |-> "mp", runtime |-> mpTlRuntime(CrossingPhases),
            snapshotRemainingT |-> 0, ok |-> TRUE, okBuffer |-> TRUE]
      [] OTHER -> [kind |-> "none"]

\* Lane.SetLight; phase is the phase of the tick in which it is called
SetLight(ls, lw, l, state, totalTime, remainingTime, phase) ==
    [lanes |-> [ls EXCEPT ![l].lightState = state,
                          ![l].lightStateTotalTime = totalTime,
                          ![l].lightStateRemainingTime = remainingTime],
     writes |-> [lw EXCEPT ![l] = Append(@, phase)]]

\* the loop over the lanes in the controllers' Prepare: lane i gets states[i]
\* with the times total[i] and remaining[i]
RECURSIVE SetLights(_, _, _, _, _, _, _, _)
SetLights(ls, lw, js, states, total, remaining, phase, i) ==
    IF i > Len(js) THEN [lanes |-> ls, writes |-> lw]
    ELSE LET r == SetLight(ls, lw, js[i], states[i], total[i], remaining[i], phase)
         IN  SetLights(r.lanes, r.writes, js, states, total, remaining, phase, i + 1)

AllGreen(js) == [i \in 1..Len(js) |-> "GREEN"]
AllINF(js) == [i \in 1..Len(js) |-> INF]

\* the backward scan of localTrafficLight.Update over the phases of the
\* program for one lane: time[pi] becomes time[pi + 1] plus the duration of
\* phase pi + 1 when the state of phase pi + 1 is the state seen last
RECURSIVE TimeScan(_, _, _, _, _, _)
TimeScan(prog, lane, pi, time, lastState, allTheSame) ==
    IF pi < 0 THEN [time |-> time, allTheSame |-> allTheSame]
    ELSE IF prog[pi + 2].States[lane] = lastState
    THEN TimeScan(prog, lane, pi - 1,
                  [time EXCEPT ![pi + 1] = time[pi + 2] + prog[pi + 2].Duration],
                  prog[pi + 2].States[lane], allTheSame)
    ELSE TimeScan(prog, lane, pi - 1, time, prog[pi + 2].States[lane], FALSE)

\* the second loop: the phases at the end of the program that show the state
\* of the last phase get t0 added
RECURSIVE WrapAround(_, _, _, _, _)
WrapAround(prog, lane, pi, time, t0) ==
    IF pi < 0 THEN time
    ELSE IF prog[Len(prog)].States[lane] # prog[pi + 1].States[lane] THEN time
    ELSE WrapAround(prog, lane, pi - 1, [time EXCEPT ![pi + 1] = @ + t0], t0)

LaneTimeBeforeChange(prog, lane, scan) ==
    IF scan.allTheSame THEN [p \in 1..Len(prog) |-> INF]
    ELSE IF prog[Len(prog)].States[lane] = prog[1].States[lane]
    THEN WrapAround(prog, lane, Len(prog) - 1, scan.time, scan.time[1] + prog[1].Duration)
    ELSE scan.time

\* the rows localTrafficLight.Update appends to timeBeforeChange when it
\* installs a program: one per lane
TimeBeforeChange(prog, numLanes) ==
    [lane \in 1..numLanes |->
       LaneTimeBeforeChange(prog, lane,
           TimeScan(prog, lane, Len(prog) - 2, [p \in 1..Len(prog) |-> 0],
                    prog[Len(prog)].States[lane], TRUE))]

localTrafficLight_Prepare_skipOff(tl, ls, lw, j, phase) ==
    LET t1 == [tl EXCEPT !.ok = tl.okBuffer, !.snapshot = tl.runtime]
        js == JunctionLanes(j)
        r == SetLights(ls, lw, js, FixedProgram[t1.snapshot.tlStep + 1].States,
                       AllINF(js), AllINF(js), phase, 1)
    IN  IF ~t1.snapshot.tl \/ ~t1.ok
        THEN [tl |-> t1, lanes |-> ls, writes |-> lw]
        ELSE [tl |-> t1, lanes |-> r.lanes, writes |-> r.writes]

\* localTrafficLight.Prepare: publish the switch and the runtime and write
\* every lane of the junction, green when there is no program or the light
\* is switched off
localTrafficLight_Prepare(tl, ls, lw, j, phase) ==
    LET t1 == [tl EXCEPT !.ok = tl.okBuffer, !.snapshot = tl.runtime]
        js == JunctionLanes(j)
        off == ~t1.snapshot.tl \/ ~t1.ok
        step == t1.snapshot.tlStep + 1
        states == IF off THEN AllGreen(js) ELSE FixedProgram[step].States
        total == IF off THEN AllINF(js)
                 ELSE [i \in 1..Len(js) |->
                         t1.snapshot.tlTotalTime + t1.timeBeforeChange[i][step]]
        remaining == IF off THEN AllINF(js)
                     ELSE [i \in 1..Len(js) |->
                             t1.snapshot.tlRemainingT + t1.timeBeforeChange[i][step]]
        r == SetLights(ls, lw, js, states, total, remaining, phase, 1)
    IN  [tl |-> t1, lanes |-> r.lanes, writes |-> r.writes]

\* the loop of localTrafficLight.Update that skips to the next phase with a
\* positive duration
RECURSIVE NextPhase(_, _)
NextPhase(step, remaining) ==
    LET s == (step + 1) % Len(FixedProgram)
        r == remaining + FixedProgram[s + 1].Duration
    IN  IF r > 0 THEN [tlStep |-> s, tlRemainingT |-> r] ELSE NextPhase(s, r)

\* localTrafficLight.Update: install the buffer, then run the phase clock
localTrafficLight_Install(tl, numLanes) ==
    IF tl.buffer = NoBuffer THEN tl
    ELSE [tl EXCEPT !.runtime = tl.buffer, !.buffer = NoBuffer,
                    !.timeBeforeChange =
                       IF tl.buffer.tl THEN @ \o TimeBeforeChange(FixedProgram, numLanes)
                       ELSE @]

localTrafficLight_Clock(t1, rem) ==
    IF ~t1.runtime.tl \/ ~t1.ok THEN t1
    ELSE IF rem > 0 THEN [t1 EXCEPT !.runtime.tlRemainingT = rem]
    ELSE LET n == NextPhase(t1.runtime.tlStep, 0)
         IN  [t1 EXCEPT !.runtime.tlStep = n.tlStep,
                        !.runtime.tlTotalTime = n.tlRemainingT,
                        !.runtime.tlRemainingT = n.tlRemainingT]

localTrafficLight_Update(tl, j, dt) ==
    LET t1 == localTrafficLight_Install(tl, Len(JunctionLanes(j)))
    IN  localTrafficLight_Clock(t1, t1.runtime.tlRemainingT - dt)

\* localTrafficLight.SetPhase and SetOk, reached through Junction.setPhase and
\* Junction.setStatus
localTrafficLight_SetPhase(tl, offset, remainingT) ==
    IF ~tl.runtime.tl THEN tl
    ELSE IF tl.buffer # NoBuffer
    THEN [tl EXCEPT !.buffer.tlRemainingT = remainingT, !.buffer.tlStep = offset]
    ELSE [tl EXCEPT !.buffer = localTlRuntime(tl.runtime.tl, offset, remainingT)]

SetOk(tl, ok) == [tl EXCEPT !.okBuffer = ok]

mpTrafficLight_Prepare_current(tl, ls, lw, j, phase) ==
    LET t1 == [tl EXCEPT !.ok = tl.okBuffer, !.snapshotRemainingT = tl.runtime.remainingT]
        js == JunctionLanes(j)
        rt == t1.runtime
        r == SetLights(ls, lw, js, rt.phases[rt.index + 1],
                       [i \in 1..Len(js) |-> rt.totalTime],
                       [i \in 1..Len(js) |-> rt.remainingT], phase, 1)
    IN  [tl |-> t1, lanes |-> r.lanes, writes |-> r.writes]

\* mpTrafficLight.Prepare: publish the switch and the remaining time and write
\* every lane of the junction: green with fewer than two phases or switched
\* off, else the first transition phase or the current phase; a lane that is
\* green in a transition phase and stays green in what follows it gets
\* phaseTime added to its times
mpNextPhase(rt) ==
    IF Len(rt.transitionPhases) = 1 THEN rt.phases[rt.nextIndex + 1]
    ELSE rt.transitionPhases[2]

mpStaysGreen(rt, i) ==
    /\ Len(rt.transitionPhases) > 0
    /\ rt.transitionPhases[1][i] = "GREEN"
    /\ mpNextPhase(rt)[i] = "GREEN"

mpPrepareWith(tl, ls, lw, js, phase, flags) ==
    LET t1 == [tl EXCEPT !.ok = tl.okBuffer, !.snapshotRemainingT = tl.runtime.remainingT]
        rt == t1.runtime
        off == Len(rt.phases) < 2 \/ ~t1.ok
        states == IF off THEN AllGreen(js)
                  ELSE IF Len(rt.transitionPhases) > 0 THEN rt.transitionPhases[1]
                  ELSE rt.phases[rt.index + 1]
        total == IF off THEN AllINF(js)
                 ELSE [i \in 1..Len(js) |->
                         IF mpStaysGreen(rt, i) THEN rt.totalTime + flags.phaseTime
                         ELSE rt.totalTime]
        remaining == IF off THEN AllINF(js)
                     ELSE [i \in 1..Len(js) |->
                             IF mpStaysGreen(rt, i) THEN rt.remainingT + flags.phaseTime
                             ELSE rt.remainingT]
        r == SetLights(ls, lw, js, states, total, remaining, phase, 1)
    IN  [tl |-> t1, lanes |-> r.lanes, writes |-> r.writes]

mpTrafficLight_Prepare(tl, ls, lw, j, phase) ==
    mpPrepareWith(tl, ls, lw, JunctionLanes(j), phase, mpFlags)

\* Lane.IsWalkLane
IsWalkLane(l) == Type(l) = "WALKING"

\* the transition phases mpTrafficLight.Update builds between the phases cur
\* and next
YellowPhase(cur, next) ==
    [i \in 1..Len(cur) |->
       IF cur[i] = "GREEN" /\ next[i] = "RED" THEN "YELLOW" ELSE cur[i]]

ClearPhase(cur, next, js) ==
    [i \in 1..Len(cur) |->
       IF cur[i] = "GREEN" /\ next[i] = "RED" /\ IsWalkLane(js[i])
       THEN "YELLOW" ELSE cur[i]]

HasClearPhase(cur, next, js) ==
    \E i \in 1..Len(cur) : cur[i] = "GREEN" /\ next[i] = "RED" /\ IsWalkLane(js[i])

AllRedPhase(cur, next, js) ==
    [i \in 1..Len(cur) |->
       IF cur[i] = "RED" /\ next[i] = "GREEN" /\ ~IsWalkLane(js[i])
       THEN "RED" ELSE next[i]]

HasAllRedPhase(cur, next, js) ==
    \E i \in 1..Len(cur) : cur[i] = "RED" /\ next[i] = "GREEN" /\ ~IsWalkLane(js[i])

TransitionPhases(cur, next, js) ==
    (IF HasClearPhase(cur, next, js) THEN <<ClearPhase(cur, next, js)>> ELSE <<>>)
    \o <<YellowPhase(cur, next)>>
    \o (IF HasAllRedPhase(cur, next, js) THEN <<AllRedPhase(cur, next, js)>> ELSE <<>>)

TransitionTimesOf(cur, next, js, flags) ==
    (IF HasClearPhase(cur, next, js) THEN <<flags.pedestrianClearTime>> ELSE <<>>)
    \o <<flags.yellowTime>>
    \o (IF HasAllRedPhase(cur, next, js) THEN <<flags.allRedTime>> ELSE <<>>)

TransitionTimes(cur, next, js) == TransitionTimesOf(cur, next, js, mpFlags)

\* the pressure of a phase: the sum of the pressures of its green lanes
RECURSIVE PhasePressure(_, _, _)
PhasePressure(states, lanePressure, i) ==
    IF i > Len(states) THEN 0
    ELSE (IF states[i] = "GREEN" THEN lanePressure[i] ELSE 0)
         + PhasePressure(states, lanePressure, i + 1)

\* the order in which HeapPop returns the phases of a junction with two
\* phases after Push(i, -pressure) and Heapify: heap.Init swaps the two only
\* when the second has the strictly smaller priority
HeapOrder(phases, lanePressure) ==
    IF PhasePressure(phases[2], lanePressure, 1) > PhasePressure(phases[1], lanePressure, 1)
    THEN <<1, 0>> ELSE <<0, 1>>

\* a switch that enters the chosen phase at once
mpSwitchToWith_direct(rt, maxIndex, js, flags) ==
    IF maxIndex = rt.index THEN rt
    ELSE [rt EXCEPT !.index = maxIndex, !.nextIndex = maxIndex, !.repeatCount = 1,
                    !.remainingT = @ + flags.phaseTime]

\* the branch of mpTrafficLight.Update that goes over to the phase maxIndex
mpSwitchToWith(rt, maxIndex, js, flags) ==
    IF maxIndex = rt.index THEN rt
    ELSE [rt EXCEPT !.nextIndex = maxIndex, !.repeatCount = 1,
             !.transitionPhases =
                 TransitionPhases(rt.phases[rt.index + 1], rt.phases[maxIndex + 1], js),
             !.transitionTimes =
                 TransitionTimesOf(rt.phases[rt.index + 1], rt.phases[maxIndex + 1], js, flags),
             !.remainingT =
                 @ + TransitionTimesOf(rt.phases[rt.index + 1], rt.phases[maxIndex + 1],
                                       js, flags)[1]]

mpSwitchTo(rt, maxIndex, js) == mpSwitchToWith(rt, maxIndex, js, mpFlags)

\* the test of the repeat count passed once more
mpExpiredWith_oneMore(rt, js, order, flags) ==
    IF Len(rt.transitionPhases) = 1
    THEN [rt EXCEPT !.index = rt.nextIndex, !.remainingT = @ + flags.phaseTime,
                    !.transitionPhases = <<>>]
    ELSE IF Len(rt.transitionPhases) > 1
    THEN [rt EXCEPT !.transitionTimes = Tail(@), !.transitionPhases = Tail(@),
                    !.remainingT = @ + rt.transitionTimes[2]]
    ELSE IF order[1] # rt.index THEN mpSwitchToWith(rt, order[1], js, flags)
    ELSE IF rt.repeatCount > flags.maxRepeatCount
    THEN mpSwitchToWith(rt, order[2], js, flags)
    ELSE [rt EXCEPT !.remainingT = @ + flags.phaseTime, !.repeatCount = @ + 1]

\* an Update that goes on past a stage whose time is zero
mpExpiredWith_skipZero(rt, js, order, flags) ==
    IF Len(rt.transitionPhases) > 2 /\ rt.transitionTimes[2] = 0
    THEN [rt EXCEPT !.transitionTimes = Tail(Tail(@)), !.transitionPhases = Tail(Tail(@)),
                    !.remainingT = @ + rt.transitionTimes[3]]
    ELSE IF Len(rt.transitionPhases) = 2 /\ rt.transitionTimes[2] = 0
    THEN [rt EXCEPT !.index = rt.nextIndex, !.remainingT = @ + flags.phaseTime,
                    !.transitionPhases = <<>>]
    ELSE IF Len(rt.transitionPhases) = 1
    THEN [rt EXCEPT !.index = rt.nextIndex, !.remainingT = @ + flags.phaseTime,
                    !.transitionPhases = <<>>]
    ELSE IF Len(rt.transitionPhases) > 1
    THEN [rt EXCEPT !.transitionTimes = Tail(@), !.transitionPhases = Tail(@),
                    !.remainingT = @ + rt.transitionTimes[2]]
    ELSE IF order[1] # rt.index THEN mpSwitchToWith(rt, order[1], js, flags)
    ELSE IF rt.repeatCount >= flags.maxRepeatCount
    THEN mpSwitchToWith(rt, order[2], js, flags)
    ELSE [rt EXCEPT !.remainingT = @ + flags.phaseTime, !.repeatCount = @ + 1]

\* the branches of mpTrafficLight.Update once the clock has run out: leave
\* the last transition phase, go to the next transition phase, or choose the
\* phase of the largest pressure
mpExpiredWith(rt, js, order, flags) ==
    IF Len(rt.transitionPhases) = 1
    THEN [rt EXCEPT !.index = rt.nextIndex, !.remainingT = @ + flags.phaseTime,
                    !.transitionPhases = <<>>]
    ELSE IF Len(rt.transitionPhases) > 1
    THEN [rt EXCEPT !.transitionTimes = Tail(@), !.transitionPhases = Tail(@),
                    !.remainingT = @ + rt.transitionTimes[2]]
    ELSE IF order[1] # rt.index THEN mpSwitchToWith(rt, order[1], js, flags)
    ELSE IF rt.repeatCount >= flags.maxRepeatCount
    THEN mpSwitchToWith(rt, order[2], js, flags)
    ELSE [rt EXCEPT !.remainingT = @ + flags.phaseTime, !.repeatCount = @ + 1]

mpExpired(rt, js, order) == mpExpiredWith(rt, js, order, mpFlags)

mpClockWith(rt, rem, js, order, flags) ==
    IF rem > 0 THEN [rt EXCEPT !.remainingT = rem]
    ELSE LET r == mpExpiredWith([rt EXCEPT !.remainingT = rem], js, order, flags)
         IN  [r EXCEPT !.totalTime = r.remainingT]

mpClock(rt, rem, js, order) == mpClockWith(rt, rem, js, order, mpFlags)

\* mpTrafficLight.Update with fewer than two phases or switched off: nothing
\* to do.  Otherwise the phase clock runs down by dt.
mpTrafficLight_Update(tl, j, dt, lanePressure) ==
    IF Len(tl.runtime.phases) < 2 \/ ~tl.ok THEN tl
    ELSE [tl EXCEPT !.runtime =
             mpClock(tl.runtime, tl.runtime.remainingT - dt, JunctionLanes(j),
                     HeapOrder(tl.runtime.phases, lanePressure))]

\* Junction.prepare and Junction.update call the controller if there is one
Junction_prepare(tl, ls, lw, j, phase) ==
    CASE tl.kind = "local" -> localTrafficLight_Prepare(tl, ls, lw, j, phase)
      [] tl.kind = "mp" -> mpTrafficLight_Prepare(tl, ls, lw, j, phase)
      [] OTHER -> [tl |-> tl, lanes |-> ls, writes |-> lw]

Junction_update(tl, j, dt, lanePressure) ==
    CASE tl.kind = "local" -> localTrafficLight_Update(tl, j, dt)
      [] tl.kind = "mp" -> mpTrafficLight_Update(tl, j, dt, lanePressure)
      [] OTHER -> tl

\* Junction.setStatus and Junction.setPhase: an error without a controller
Junction_setStatus(tl, ok) ==
    IF tl.kind = "none" THEN tl ELSE SetOk(tl, ok)

Junction_setPhase(tl, offset, remainingTime) ==
    IF tl.kind = "local" THEN localTrafficLight_SetPhase(tl, offset, remainingTime)
    ELSE tl

\* ------------------------------------------------------------------ Init
\* the persons of the input: person 1 lives in AOI A1, person 2 stands at the
\* start of lane L1
Home(p) == IF p = 1 THEN Pos(nil, 0, "A1") ELSE Pos("L1", 0, nil)

\* the schedules the persons are created with
InitialSchedules(p) ==
    IF p = 1 THEN {<<walkA3, driveA2>>, <<driveA2>>}
    ELSE {<<driveA2pre>>}

\* the SetSchedule requests of the run: the schedule they carry, the person
\* they name and the steps after which they arrive
RequestSchedules == {<<walkA3>>}
RequestPersons == {2}
RequestSteps == {3}

\* the zero runtime and the runtime newPerson builds
zeroRuntime == [Status |-> "UNSPECIFIED", IsTripEnd |-> FALSE, V |-> 0,
                Lane |-> nil, S |-> 0, Aoi |-> nil, LC |-> noLC]

newPersonRuntime(p) ==
    [zeroRuntime EXCEPT !.Status = "SLEEP", !.IsTripEnd = TRUE,
                        !.Lane = Home(p).Lane, !.S = Home(p).S, !.Aoi = Home(p).Aoi]

\* newLane and newAoi
newLane == [vehicles |-> newLaneList, pedestrians |-> newLaneList, lightState |-> "GREEN",
            lightStateTotalTime |-> INF, lightStateRemainingTime |-> INF]
newAoi == [persons |-> {}, addPersonBuffer |-> <<>>, removePersonBuffer |-> <<>>]

JunctionLaneSet == {"JL", "JX", "JY"}

Init ==
    /\ pc = "step"
    /\ InternalStep = 0
    /\ DT = 1
    /\ done = {}
    /\ crashed = FALSE
    /\ runtime = [p \in Persons |-> newPersonRuntime(p)]
    /\ snapshot = [p \in Persons |-> zeroRuntime]
    /\ vehicle = [p \in Persons |-> [node |-> NoNode, shadowNode |-> NoNode]]
    /\ pedestrian = [p \in Persons |-> [node |-> NoNode]]
    /\ schedule = [p \in Persons |-> [base |-> <<>>, TripIndex |-> 0, seq |-> 0]]
    /\ newSchedule \in [Persons -> UNION {InitialSchedules(p) : p \in Persons}]
    /\ \A p \in Persons : newSchedule[p] \in InitialSchedules(p)
    /\ scheduleResetFlag = [p \in Persons |-> TRUE]
    /\ resetPos = [p \in Persons |-> NoPos]
    /\ close = FALSE
    /\ multiModalRoute = [p \in Persons |-> newMultiModalRoute]
    /\ inflight = [p \in Persons |-> {}]
    /\ waiting = {}
    /\ rpcCount = 0
    /\ response = <<>>
    /\ nodes = [n \in Nodes |-> freeNode]
    /\ lanes = [l \in Lanes |-> newLane]
    /\ aois = [a \in Aois |->
                 [newAoi EXCEPT !.addPersonBuffer =
                      IF a = "A1" THEN <<1>> ELSE <<>>]]
    /\ trafficLight = [j \in Junctions |-> newJunction(j)]
    /\ lightWrites = [l \in JunctionLaneSet |-> <<>>]
    /\ committed = [person |-> [p \in Persons |-> zeroRuntime],
                    key |-> [n \in Nodes |-> 0],
                    vehicles |-> [l \in Lanes |-> <<>>]]
    /\ perceived = {}

\* ---------------------------------------------------------- bookkeeping
\* the nodes some pointer still reaches: a person's node fields, the lists
\* and the buffers; every other node is garbage and returns to the pool
Reachable(veh, ped, ls) ==
    {veh[p].node : p \in Persons} \cup {veh[p].shadowNode : p \in Persons}
    \cup {ped[p].node : p \in Persons}
    \cup UNION {SeqToSet(ls[l][k].list) \cup SeqToSet(ls[l][k].addBuffer)
                \cup SeqToSet(ls[l][k].removeBuffer) :
                l \in Lanes, k \in {"vehicles", "pedestrians"}}

Collect(nd, veh, ped, ls) ==
    [n \in Nodes |-> IF n \in Reachable(veh, ped, ls) THEN nd[n] ELSE freeNode]

\* the calls Context.prepare and Context.update wait for
Task(name) == <<name, 0>>
PrepareTasks == {<<"prepareNode", p>> : p \in Persons}
                \cup {Task("personPrepare"), Task("lanePrepare"),
                      Task("junctionPrepare"), Task("aoiPrepare")}
UpdateTasks == {<<"update", p>> : p \in Persons}
               \cup {Task("aoiUpdate"), Task("junctionUpdate"), Task("laneUpdate")}

PrepareNodeDone == \A p \in Persons : <<"prepareNode", p>> \in done

\* --------------------------------------------------------------- the run
personInJunction_never(rt) == FALSE

\* the test of PersonManager.SetSchedule: the person's lane lies in a junction
personInJunction(rt) == rt.Lane # nil /\ ParentJunction(rt.Lane) # nil

\* connect.NewResponse and connect.NewError(connect.CodeInvalidArgument, ...)
Response(method, p, code) == [method |-> method, person |-> p, code |-> code]

\* PersonManager.SetSchedule, served while Run waits in sidecar.Step: refused
\* for a person whose runtime lane lies inside a junction
SetScheduleIn(steps, calls, p, s) ==
    /\ pc = "step" /\ ~crashed
    /\ rpcCount < calls
    /\ InternalStep \in steps
    /\ IF personInJunction(runtime[p])
       THEN /\ response' = Append(response, Response("SetSchedule", p, "invalid_argument"))
            /\ UNCHANGED <<newSchedule, scheduleResetFlag>>
       ELSE /\ newSchedule' = [newSchedule EXCEPT ![p] = s]
            /\ scheduleResetFlag' = [scheduleResetFlag EXCEPT ![p] = TRUE]
            /\ response' = Append(response, Response("SetSchedule", p, "ok"))
    /\ rpcCount' = rpcCount + 1
    /\ UNCHANGED <<resetPos, close, DT, pc, InternalStep, done, crashed, runtime, snapshot, vehicle,
                   pedestrian, schedule, multiModalRoute, inflight, waiting,
                   nodes, lanes, aois, trafficLight, lightWrites, committed,
                   perceived>>

\* PersonManager.SetSchedule, called before one of the steps RequestSteps
SetSchedule(p, s) == SetScheduleIn(RequestSteps, MaxRpc, p, s)

\* an external stop reaches the sidecar while Run waits in sidecar.Step
ExternalStop ==
    /\ pc = "step" /\ ~crashed
    /\ ~close
    /\ close' = TRUE
    /\ UNCHANGED <<resetPos, response, DT, pc, InternalStep, done, crashed, runtime,
                   snapshot, vehicle, pedestrian, schedule, newSchedule,
                   scheduleResetFlag, multiModalRoute, inflight, waiting, rpcCount,
                   nodes, lanes, aois, trafficLight, lightWrites, committed,
                   perceived>>

CloseWaits_forRoutes == \E p \in Persons : inflight[p] # {}

\* Context.Close waits for the sidecar to stop serving and for nothing else
CloseWaits == FALSE

RunBreaks_endOnly(step, answer) == step + 1 >= END_STEP

\* Context.Run, the end of the loop body: sidecar.Step(true) after the last
\* step, and the break on its answer
RunBreaks(step, answer) == step + 1 >= END_STEP \/ answer

\* Context.Run: sidecar.Step returns.  After the last step, or with the
\* answer close, the run closes; otherwise Context.prepare starts and
\* advances the clock.  The answer of the first sidecar.Step, before the
\* loop, is not looked at: repeated tells whether the sidecar gives it again.
StepReturn(repeated) ==
    /\ pc = "step" /\ ~crashed
    /\ IF InternalStep > 0 /\ RunBreaks(InternalStep, close)
       THEN /\ ~CloseWaits
            /\ pc' = "closed"
            /\ UNCHANGED <<InternalStep, lightWrites, perceived, close>>
       ELSE /\ pc' = "prepare"
            /\ InternalStep' = InternalStep + 1
            /\ lightWrites' = [l \in JunctionLaneSet |-> <<>>]
            /\ perceived' = {}
            /\ close' = (close /\ repeated)
    /\ response' = <<>>
    /\ done' = {}
    /\ UNCHANGED <<resetPos, DT, crashed, runtime, snapshot, vehicle, pedestrian, schedule,
                   newSchedule, scheduleResetFlag, multiModalRoute, inflight,
                   waiting, rpcCount, nodes, lanes, aois, trafficLight, committed>>

\* Person.prepareNode, the head of the DRIVING case: the side links of the
\* person's node are cleared, those of its shadow node only when the last
\* snapshot is in a lane change
clearExtra(nd, rt, sn, veh) ==
    IF rt.Status # "DRIVING" THEN nd
    ELSE LET n1 == [nd EXCEPT ![veh.node].links = NoLinks]
         IN  IF sn.LC.IsLC THEN [n1 EXCEPT ![veh.shadowNode].links = NoLinks] ELSE n1

\* Person.prepareNode, run for every person by PersonManager.PrepareNode:
\* copy the runtime position into the keys of the person's own nodes
prepareNode(nd, rt, veh, ped) ==
    CASE rt.Status = "DRIVING" ->
           LET n1 == [nd EXCEPT ![veh.node].S = rt.S]
           IN  IF rt.LC.IsLC THEN [n1 EXCEPT ![veh.shadowNode].S = rt.LC.ShadowS] ELSE n1
      [] rt.Status = "WALKING" -> [nd EXCEPT ![ped.node].S = rt.S]
      [] OTHER -> nd

PrepareNode(p) ==
    /\ pc = "prepare" /\ ~crashed
    /\ <<"prepareNode", p>> \notin done
    /\ nodes' = prepareNode(clearExtra(nodes, runtime[p], snapshot[p], vehicle[p]),
                             runtime[p], vehicle[p], pedestrian[p])
    /\ done' = done \cup {<<"prepareNode", p>>}
    /\ UNCHANGED <<resetPos, close, response, DT, pc, InternalStep, crashed, runtime, snapshot, vehicle,
                   pedestrian, schedule, newSchedule, scheduleResetFlag,
                   multiModalRoute, inflight, waiting, rpcCount, lanes, aois,
                   trafficLight, lightWrites, committed, perceived>>

\* the guards of the fork-join in Context.prepare
CanStartPersonPrepare == PrepareNodeDone
CanStartLanePrepare == PrepareNodeDone
CanStartJunctionPrepare_early == PrepareNodeDone
CanStartJunctionPrepare ==
    Task("personPrepare") \in done /\ Task("lanePrepare") \in done

\* Person.prepare with ResetScheduleIfNeed, run for every person by
\* PersonManager.Prepare
PersonManagerPrepare ==
    /\ pc = "prepare" /\ ~crashed
    /\ CanStartPersonPrepare
    /\ Task("personPrepare") \notin done
    /\ snapshot' = runtime
    /\ runtime' = [p \in Persons |->
                     IF scheduleResetFlag[p]
                     THEN [runtime[p] EXCEPT !.Status = "SLEEP"] ELSE runtime[p]]
    /\ schedule' = [p \in Persons |->
                      IF scheduleResetFlag[p]
                      THEN ScheduleSet(schedule[p], newSchedule[p]) ELSE schedule[p]]
    /\ multiModalRoute' = [p \in Persons |->
                             IF scheduleResetFlag[p]
                             THEN [multiModalRoute[p] EXCEPT !.ok = FALSE]
                             ELSE multiModalRoute[p]]
    /\ scheduleResetFlag' = [p \in Persons |-> FALSE]
    /\ done' = done \cup {Task("personPrepare")}
    /\ UNCHANGED <<resetPos, close, response, DT, pc, InternalStep, crashed, vehicle, pedestrian, newSchedule,
                   inflight, waiting, rpcCount, nodes, lanes, aois,
                   trafficLight, lightWrites, committed, perceived>>

\* Lane.prepare for every lane, as LaneManager.Prepare runs it: the
\* pedestrian list, then the vehicle list
LaneOrder == <<"L1", "L2", "JL", "L3", "JX", "JY", "W1", "W2">>

RECURSIVE LanesPrepare(_, _, _, _)
LanesPrepare(order, ls, nd, i) ==
    IF i > Len(order) THEN [lanes |-> ls, nodes |-> nd, panic |-> FALSE]
    ELSE LET l == order[i]
             rp == laneList_prepare(ls[l].pedestrians, nd, <<l, "pedestrians">>)
             rv == laneList_prepare(ls[l].vehicles, rp.nodes, <<l, "vehicles">>)
         IN  IF rp.panic \/ rv.panic THEN [lanes |-> ls, nodes |-> nd, panic |-> TRUE]
             ELSE LanesPrepare(order,
                               [ls EXCEPT ![l].pedestrians = rp.ll, ![l].vehicles = rv.ll],
                               rv.nodes, i + 1)

\* the lane on side which of lane l: sideLanes[which][0], nil when none
SideLane(l, which) == IF which = "LEFT" THEN LeftLane(l) ELSE RightLane(l)

\* the inner loop of Lane.prepare2: nFront moves on while its key divided by
\* its lane's length is below the node's; the quotients are compared by
\* cross-multiplication
RECURSIVE NeighborFront(_, _, _, _, _, _)
NeighborFront(nd, nList, j, node, l, neighborLane) ==
    IF j <= Len(nList)
       /\ nd[nList[j]].S * Length(l) < nd[node].S * Length(neighborLane)
    THEN NeighborFront(nd, nList, j + 1, node, l, neighborLane)
    ELSE j

\* the outer loop of Lane.prepare2 for one side: the nodes of the lane from
\* the head, nFront at position j of the neighbour's list and nBack before it
RECURSIVE SideLinks(_, _, _, _, _, _, _, _)
SideLinks(nd, list, nList, l, neighborLane, which, i, j) ==
    IF i > Len(list) THEN nd
    ELSE LET node == list[i]
             j1 == NeighborFront(nd, nList, j, node, l, neighborLane)
             nBack == IF j1 > 1 THEN nList[j1 - 1] ELSE NoNode
             nFront == IF j1 <= Len(nList) THEN nList[j1] ELSE NoNode
         IN  SideLinks([nd EXCEPT ![node].links[which] =
                                     [BEFORE |-> nBack, AFTER |-> nFront]],
                       list, nList, l, neighborLane, which, i + 1, j1)

\* Lane.prepare2 for one side of a driving lane: nothing is written without
\* a lane on that side or with no vehicle on it
prepare2Side(ls, nd, l, which) ==
    LET neighborLane == SideLane(l, which)
    IN  IF neighborLane = nil THEN nd
        ELSE IF ls[neighborLane].vehicles.list = <<>> THEN nd
        ELSE SideLinks(nd, ls[l].vehicles.list, ls[neighborLane].vehicles.list,
                       l, neighborLane, which, 1, 1)

\* Lane.prepare2
prepare2(ls, nd, l) ==
    IF Type(l) # "DRIVING" THEN nd
    ELSE prepare2Side(ls, prepare2Side(ls, nd, l, "LEFT"), l, "RIGHT")

\* Lane.prepare2 for every lane, once every Lane.prepare has returned
RECURSIVE LanesPrepare2(_, _, _, _)
LanesPrepare2(order, ls, nd, i) ==
    IF i > Len(order) THEN nd
    ELSE LanesPrepare2(order, ls, prepare2(ls, nd, order[i]), i + 1)

LaneManagerPrepare ==
    /\ pc = "prepare" /\ ~crashed
    /\ CanStartLanePrepare
    /\ Task("lanePrepare") \notin done
    /\ LET r == LanesPrepare(LaneOrder, lanes, nodes, 1)
       IN  IF r.panic
           THEN crashed' = TRUE /\ UNCHANGED <<lanes, nodes, done>>
           ELSE /\ lanes' = r.lanes
                /\ nodes' = Collect(LanesPrepare2(LaneOrder, r.lanes, r.nodes, 1),
                                    vehicle, pedestrian, r.lanes)
                /\ done' = done \cup {Task("lanePrepare")}
                /\ UNCHANGED crashed
    /\ UNCHANGED <<resetPos, close, response, DT, pc, InternalStep, runtime, snapshot, vehicle, pedestrian,
                   schedule, newSchedule, scheduleResetFlag, multiModalRoute,
                   inflight, waiting, rpcCount, aois, trafficLight,
                   lightWrites, committed, perceived>>

\* Junction.prepare for every junction, as JunctionManager.Prepare runs it
JunctionOrder == <<"J1", "J2", "J3">>

RECURSIVE JunctionsPrepare(_, _, _, _, _, _)
JunctionsPrepare(order, tls, ls, lw, phase, i) ==
    IF i > Len(order) THEN [tls |-> tls, lanes |-> ls, writes |-> lw]
    ELSE LET j == order[i]
             r == Junction_prepare(tls[j], ls, lw, j, phase)
         IN  JunctionsPrepare(order, [tls EXCEPT ![j] = r.tl], r.lanes, r.writes,
                              phase, i + 1)

JunctionManagerPrepare ==
    /\ pc = "prepare" /\ ~crashed
    /\ CanStartJunctionPrepare
    /\ Task("junctionPrepare") \notin done
    /\ LET r == JunctionsPrepare(JunctionOrder, trafficLight, lanes, lightWrites, "prepare", 1)
       IN  /\ trafficLight' = r.tls
           /\ lanes' = r.lanes
           /\ lightWrites' = r.writes
    /\ done' = done \cup {Task("junctionPrepare")}
    /\ UNCHANGED <<resetPos, close, response, DT, pc, InternalStep, crashed, runtime, snapshot, vehicle,
                   pedestrian, schedule, newSchedule, scheduleResetFlag,
                   multiModalRoute, inflight, waiting, rpcCount, nodes, aois,
                   committed, perceived>>

Aoi_prepare_addOnly(a) ==
    [persons |-> a.persons \cup SeqToSet(a.addPersonBuffer),
     addPersonBuffer |-> <<>>, removePersonBuffer |-> <<>>]

\* Aoi.prepare for every AOI, as AoiManager.Prepare runs it
Aoi_prepare(a) ==
    [persons |-> (a.persons \ SeqToSet(a.removePersonBuffer))
                 \cup SeqToSet(a.addPersonBuffer),
     addPersonBuffer |-> <<>>, removePersonBuffer |-> <<>>]

AoiManagerPrepare ==
    /\ pc = "prepare" /\ ~crashed
    /\ Task("aoiPrepare") \notin done
    /\ aois' = [a \in Aois |-> Aoi_prepare(aois[a])]
    /\ done' = done \cup {Task("aoiPrepare")}
    /\ UNCHANGED <<resetPos, close, response, DT, pc, InternalStep, crashed, runtime, snapshot, vehicle,
                   pedestrian, schedule, newSchedule, scheduleResetFlag,
                   multiModalRoute, inflight, waiting, rpcCount, nodes, lanes,
                   trafficLight, lightWrites, committed, perceived>>

\* Context.prepare: wg.Wait returns when every prepare call has returned;
\* Run then calls NotifyStepReady and starts Context.update
CanStartUpdate_early == Task("personPrepare") \in done
CanStartUpdate == done = PrepareTasks

PrepareJoin ==
    /\ pc = "prepare" /\ ~crashed
    /\ CanStartUpdate
    /\ pc' = "update"
    /\ done' = {}
    /\ committed' = [person |-> snapshot, key |-> KeyOf(nodes),
                     vehicles |-> [l \in Lanes |-> lanes[l].vehicles.list]]
    /\ UNCHANGED <<resetPos, close, response, DT, InternalStep, crashed, runtime, snapshot, vehicle,
                   pedestrian, schedule, newSchedule, scheduleResetFlag,
                   multiModalRoute, inflight, waiting, rpcCount, nodes, lanes,
                   aois, trafficLight, lightWrites, perceived>>

\* the accessors other agents read a person through: Person.V, Person.S,
\* Person.Lane and Person.IsLC return the snapshot
PersonV_runtime(p) == runtime[p].V
PersonV(p) == snapshot[p].V
PersonS(p) == snapshot[p].S
PersonLane(p) == snapshot[p].Lane
PersonIsLC(p) == snapshot[p].LC.IsLC

\* ListNode.Next and ListNode.Prev
NodeIndex(list, n) == CHOOSE i \in 1..Len(list) : list[i] = n
NodeNext(n) ==
    IF n = NoNode \/ nodes[n].parent = NoList THEN NoNode
    ELSE LET list == lanes[nodes[n].parent[1]][nodes[n].parent[2]].list
             i == NodeIndex(list, n)
         IN  IF i < Len(list) THEN list[i + 1] ELSE NoNode
NodePrev(n) ==
    IF n = NoNode \/ nodes[n].parent = NoList THEN NoNode
    ELSE LET list == lanes[nodes[n].parent[1]][nodes[n].parent[2]].list
             i == NodeIndex(list, n)
         IN  IF i > 1 THEN list[i - 1] ELSE NoNode

\* what controller.update reads of the vehicle behind node m: the node's key
\* and, through the node's Value, the owner's speed, lane and lane-change
\* flag; ownerDone tells whether the owner's update of this tick had already
\* returned when the values were read
Reading(p, m) ==
    [reader |-> p, node |-> m, owner |-> nodes[m].Value, S |-> nodes[m].S,
     ownerDone |-> <<"update", nodes[m].Value>> \in done,
     V |-> PersonV(nodes[m].Value), Lane |-> PersonLane(nodes[m].Value),
     IsLC |-> PersonIsLC(nodes[m].Value)]

\* the vehicles controller.update looks at: ahead and behind the own node and
\* ahead of the shadow node while changing lanes
Readings(p) ==
    IF runtime[p].Status # "DRIVING" THEN {}
    ELSE LET ns == {NodeNext(vehicle[p].node), NodePrev(vehicle[p].node)}
                   \cup (IF PersonIsLC(p) THEN {NodeNext(vehicle[p].shadowNode)} ELSE {})
         IN  {Reading(p, m) : m \in ns \ {NoNode}}

WaitBlocks_never(p) == FALSE

\* MultiModalRoute.Wait blocks while the channel of the last request is open
WaitBlocks(p) ==
    /\ multiModalRoute[p].waitCh # 0
    /\ \E q \in inflight[p] : q.ch = multiModalRoute[p].waitCh

\* Person.update reaches MultiModalRoute.Wait and blocks there
PersonWait(p) ==
    /\ pc = "update" /\ ~crashed
    /\ <<"update", p>> \notin done
    /\ p \notin waiting
    /\ runtime[p].Status = "WAIT_ROUTE"
    /\ WaitBlocks(p)
    /\ waiting' = waiting \cup {p}
    /\ UNCHANGED <<resetPos, close, response, DT, pc, InternalStep, done, crashed, runtime, snapshot, vehicle,
                   pedestrian, schedule, newSchedule, scheduleResetFlag,
                   multiModalRoute, inflight, rpcCount, nodes, lanes, aois,
                   trafficLight, lightWrites, committed, perceived>>

\* the distance a vehicle covers in a tick and the progress of its lane change
Moves == {0, 2}
Progress(ds) == IF ds = 0 THEN {0} ELSE 0..RatioDen

\* the state Person.update works on, and what it leaves behind: a panic ends
\* the process, otherwise the person's fields and the shared heap are written
UpdateState(p) ==
    [rt |-> runtime[p], veh |-> vehicle[p], ped |-> pedestrian[p],
     sch |-> schedule[p], mr |-> multiModalRoute[p], infl |-> inflight[p],
     reset |-> resetPos[p],
     nodes |-> nodes, lanes |-> lanes, aois |-> aois, panic |-> FALSE]

UpdateReturns(p, r) ==
    IF r.panic
    THEN /\ crashed' = TRUE
         /\ UNCHANGED <<runtime, vehicle, pedestrian, schedule, multiModalRoute, resetPos,
                        inflight, nodes, lanes, aois, done, waiting, perceived>>
    ELSE /\ runtime' = [runtime EXCEPT ![p] = r.rt]
         /\ vehicle' = [vehicle EXCEPT ![p] = r.veh]
         /\ pedestrian' = [pedestrian EXCEPT ![p] = r.ped]
         /\ schedule' = [schedule EXCEPT ![p] = r.sch]
         /\ multiModalRoute' = [multiModalRoute EXCEPT ![p] = r.mr]
         /\ inflight' = [inflight EXCEPT ![p] = r.infl]
         /\ resetPos' = [resetPos EXCEPT ![p] = r.reset]
         /\ nodes' = Collect(r.nodes, [vehicle EXCEPT ![p] = r.veh],
                             [pedestrian EXCEPT ![p] = r.ped], r.lanes)
         /\ lanes' = r.lanes
         /\ aois' = r.aois
         /\ done' = done \cup {<<"update", p>>}
         /\ waiting' = waiting \ {p}
         /\ perceived' = perceived \cup Readings(p)
         /\ UNCHANGED crashed

\* Person.update, run for every person by PersonManager.Update
PersonUpdateIn(p, forceEnd) ==
    /\ pc = "update" /\ ~crashed
    /\ <<"update", p>> \notin done
    /\ runtime[p].Status = "WAIT_ROUTE" => ~WaitBlocks(p)
    /\ \A q \in Persons : Cardinality(FreeNodes(nodes, q)) >= 2
    /\ \E target \in LCTargets(runtime[p], multiModalRoute[p].VehicleRoute),
          ds \in Moves :
         \E dr \in Progress(ds) :
           /\ runtime[p].Status # "DRIVING" => (target = nil /\ ds = 0 /\ dr = 0)
           /\ (runtime[p].Status = "DRIVING" /\ ~runtime[p].LC.IsLC /\ target = nil)
                 => dr = 0
           /\ UpdateReturns(p, PersonUpdateBody(UpdateState(p), snapshot[p], p,
                                                target, ds, dr, forceEnd))
    /\ UNCHANGED <<close, response, DT, pc, InternalStep, snapshot, newSchedule, scheduleResetFlag,
                   rpcCount, trafficLight, lightWrites, committed>>

\* Person.update in a run of END_STEP steps: the last step forces trip ends
PersonUpdate(p) == PersonUpdateIn(p, InternalStep + 1 = END_STEP)

\* the router answers a request: LocalRouter.GetRoute calls the continuation
\* MultiModalRoute.ProcessRouting and then closes the channel
RouterDeliver(p) ==
    /\ pc # "closed" /\ ~crashed
    /\ \E q \in inflight[p], found \in BOOLEAN :
         /\ multiModalRoute' =
              [multiModalRoute EXCEPT ![p] =
                 ProcessRouting(@, IF found THEN RouterResponse(q.Type, q.Start, q.End)
                                   ELSE NoJourney(q.Type), q.ch)]
         /\ inflight' = [inflight EXCEPT ![p] = @ \ {q}]
    /\ UNCHANGED <<resetPos, close, response, DT, pc, InternalStep, done, crashed, runtime, snapshot, vehicle,
                   pedestrian, schedule, newSchedule, scheduleResetFlag,
                   waiting, rpcCount, nodes, lanes, aois, trafficLight,
                   lightWrites, committed, perceived>>

\* AoiManager.Update: Aoi.update has an empty body
AoiManagerUpdate ==
    /\ pc = "update" /\ ~crashed
    /\ Task("aoiUpdate") \notin done
    /\ done' = done \cup {Task("aoiUpdate")}
    /\ UNCHANGED <<resetPos, close, response, DT, pc, InternalStep, crashed, runtime, snapshot, vehicle,
                   pedestrian, schedule, newSchedule, scheduleResetFlag,
                   multiModalRoute, inflight, waiting, rpcCount, nodes, lanes,
                   aois, trafficLight, lightWrites, committed, perceived>>

\* LaneManager.Update: Lane.update has an empty body
LaneManagerUpdate ==
    /\ pc = "update" /\ ~crashed
    /\ Task("laneUpdate") \notin done
    /\ done' = done \cup {Task("laneUpdate")}
    /\ UNCHANGED <<resetPos, close, response, DT, pc, InternalStep, crashed, runtime, snapshot, vehicle,
                   pedestrian, schedule, newSchedule, scheduleResetFlag,
                   multiModalRoute, inflight, waiting, rpcCount, nodes, lanes,
                   aois, trafficLight, lightWrites, committed, perceived>>

\* Lane.GetPressure for the lanes of a junction whose neighbour lanes carry
\* no vehicle
NoPressure(j) == [i \in 1..Len(JunctionLanes(j)) |-> 0]

\* JunctionManager.Update: Junction.update for every junction
JunctionManagerUpdate ==
    /\ pc = "update" /\ ~crashed
    /\ Task("junctionUpdate") \notin done
    /\ trafficLight' = [j \in Junctions |->
                           Junction_update(trafficLight[j], j, DT, NoPressure(j))]
    /\ done' = done \cup {Task("junctionUpdate")}
    /\ UNCHANGED <<resetPos, close, response, DT, pc, InternalStep, crashed, runtime, snapshot, vehicle,
                   pedestrian, schedule, newSchedule, scheduleResetFlag,
                   multiModalRoute, inflight, waiting, rpcCount, nodes, lanes,
                   aois, lightWrites, committed, perceived>>

\* Context.update: wg.Wait returns when every update call has returned; Run
\* then calls sidecar.Step
CanEndUpdate == done = UpdateTasks

UpdateJoin ==
    /\ pc = "update" /\ ~crashed
    /\ CanEndUpdate
    /\ pc' = "step"
    /\ done' = {}
    /\ UNCHANGED <<resetPos, close, response, DT, InternalStep, crashed, runtime, snapshot, vehicle,
                   pedestrian, schedule, newSchedule, scheduleResetFlag,
                   multiModalRoute, inflight, waiting, rpcCount, nodes, lanes,
                   aois, trafficLight, lightWrites, committed, perceived>>

Next ==
    \/ \E p \in RequestPersons, s \in RequestSchedules : SetSchedule(p, s)
    \/ ExternalStop
    \/ \E repeated \in BOOLEAN : StepReturn(repeated)
    \/ \E p \in Persons : PrepareNode(p)
    \/ PersonManagerPrepare
    \/ LaneManagerPrepare
    \/ JunctionManagerPrepare
    \/ AoiManagerPrepare
    \/ PrepareJoin
    \/ \E p \in Persons : PersonWait(p)
    \/ \E p \in Persons : PersonUpdate(p)
    \/ \E p \in Persons : RouterDeliver(p)
    \/ AoiManagerUpdate
    \/ LaneManagerUpdate
    \/ JunctionManagerUpdate
    \/ UpdateJoin

Spec == Init /\ [][Next]_vars

\* ------------------------------------------------- a trip to a lane
\* The same run with person 2 on a trip by car that ends at a position on
\* lane L3 instead of an AOI.
LaneEndSchedules(p) ==
    IF p = 1 THEN InitialSchedules(p) ELSE {<<driveL3pre>>}

LaneEndInit ==
    /\ pc = "step"
    /\ InternalStep = 0
    /\ DT = 1
    /\ done = {}
    /\ crashed = FALSE
    /\ runtime = [p \in Persons |-> newPersonRuntime(p)]
    /\ snapshot = [p \in Persons |-> zeroRuntime]
    /\ vehicle = [p \in Persons |-> [node |-> NoNode, shadowNode |-> NoNode]]
    /\ pedestrian = [p \in Persons |-> [node |-> NoNode]]
    /\ schedule = [p \in Persons |-> [base |-> <<>>, TripIndex |-> 0, seq |-> 0]]
    /\ newSchedule \in [Persons -> UNION {LaneEndSchedules(p) : p \in Persons}]
    /\ \A p \in Persons : newSchedule[p] \in LaneEndSchedules(p)
    /\ scheduleResetFlag = [p \in Persons |-> TRUE]
    /\ resetPos = [p \in Persons |-> NoPos]
    /\ close = FALSE
    /\ multiModalRoute = [p \in Persons |-> newMultiModalRoute]
    /\ inflight = [p \in Persons |-> {}]
    /\ waiting = {}
    /\ rpcCount = 0
    /\ response = <<>>
    /\ nodes = [n \in Nodes |-> freeNode]
    /\ lanes = [l \in Lanes |-> newLane]
    /\ aois = [a \in Aois |->
                 [newAoi EXCEPT !.addPersonBuffer =
                      IF a = "A1" THEN <<1>> ELSE <<>>]]
    /\ trafficLight = [j \in Junctions |-> newJunction(j)]
    /\ lightWrites = [l \in JunctionLaneSet |-> <<>>]
    /\ committed = [person |-> [p \in Persons |-> zeroRuntime],
                    key |-> [n \in Nodes |-> 0],
                    vehicles |-> [l \in Lanes |-> <<>>]]
    /\ perceived = {}

LaneEndSpec == LaneEndInit /\ [][Next]_vars

\* the run whose sidecar lets every sidecar.Step return; nothing is assumed
\* of the router, which may leave a request unanswered for ever
LiveSpec == Spec /\ WF_vars(\E repeated \in BOOLEAN : StepReturn(repeated))

\* ------------------------------------------------- the signal controllers
\* The junction manager alone, on a map of the fixed-program junction J1 and
\* the Max-Pressure junction J4 with no person on it: the step interval is
\* an input of the run, the pressures of the lanes are inputs of every
\* update, and the traffic-light requests arrive between the ticks.
SignalOrder == <<"J1", "J4">>
SignalJunctions == {"J1", "J4"}
SignalLanes == {"JL", "JA", "JB", "JW"}

\* control.step.interval of the configurations explored, in seconds
StepIntervals == {1, 5}

\* the pressures of the lanes of J4: a crossing has none
CrossingPressures == {<<a, b, 0>> : a \in {0, 1}, b \in {0, 1}}

\* the phase index and the remaining time a SetTrafficLightPhase request carries
PhaseIndexes == {0, 1}
TimesRemaining == {0, 2}

personVars == <<crashed, runtime, snapshot, vehicle, pedestrian, schedule,
                newSchedule, scheduleResetFlag, resetPos, close, multiModalRoute,
                inflight, waiting, response, nodes, aois, committed, perceived>>

SignalInit ==
    /\ pc = "step"
    /\ InternalStep = 0
    /\ DT \in StepIntervals
    /\ done = {}
    /\ crashed = FALSE
    /\ runtime = <<>>
    /\ snapshot = <<>>
    /\ vehicle = <<>>
    /\ pedestrian = <<>>
    /\ schedule = <<>>
    /\ newSchedule = <<>>
    /\ scheduleResetFlag = <<>>
    /\ resetPos = <<>>
    /\ close = FALSE
    /\ multiModalRoute = <<>>
    /\ inflight = <<>>
    /\ waiting = {}
    /\ rpcCount = 0
    /\ response = <<>>
    /\ nodes = <<>>
    /\ lanes = [l \in SignalLanes |-> newLane]
    /\ aois = <<>>
    /\ trafficLight = [j \in SignalJunctions |-> newJunction(j)]
    /\ lightWrites = [l \in SignalLanes |-> <<>>]
    /\ committed = <<>>
    /\ perceived = {}

\* JunctionManager.SetTrafficLightStatus
SetTrafficLightStatus(j, ok) ==
    /\ pc = "step"
    /\ rpcCount < MaxRpc
    /\ trafficLight' = [trafficLight EXCEPT ![j] = Junction_setStatus(@, ok)]
    /\ rpcCount' = rpcCount + 1
    /\ UNCHANGED <<pc, InternalStep, DT, done, lanes, lightWrites>>
    /\ UNCHANGED personVars

\* JunctionManager.SetTrafficLightPhase: a negative remaining time is refused
SetTrafficLightPhase(j, index, remaining) ==
    /\ pc = "step"
    /\ rpcCount < MaxRpc
    /\ trafficLight' = [trafficLight EXCEPT ![j] =
                          IF remaining < 0 THEN @
                          ELSE Junction_setPhase(@, index, remaining)]
    /\ rpcCount' = rpcCount + 1
    /\ UNCHANGED <<pc, InternalStep, DT, done, lanes, lightWrites>>
    /\ UNCHANGED personVars

\* Context.Run between two ticks, as in StepReturn
SignalStepReturn ==
    /\ pc = "step"
    /\ IF InternalStep > 0 /\ InternalStep + 1 >= END_STEP
       THEN /\ pc' = "closed"
            /\ UNCHANGED <<InternalStep, lightWrites>>
       ELSE /\ pc' = "prepare"
            /\ InternalStep' = InternalStep + 1
            /\ lightWrites' = [l \in SignalLanes |-> <<>>]
    /\ UNCHANGED <<DT, done, rpcCount, lanes, trafficLight>>
    /\ UNCHANGED personVars

\* JunctionManager.Prepare, after which Context.prepare returns
SignalPrepare ==
    /\ pc = "prepare"
    /\ Task("junctionPrepare") \notin done
    /\ LET r == JunctionsPrepare(SignalOrder, trafficLight, lanes, lightWrites, "prepare", 1)
       IN  /\ trafficLight' = r.tls
           /\ lanes' = r.lanes
           /\ lightWrites' = r.writes
    /\ done' = {Task("junctionPrepare")}
    /\ UNCHANGED <<pc, InternalStep, DT, rpcCount>>
    /\ UNCHANGED personVars

SignalPrepareJoin ==
    /\ pc = "prepare"
    /\ Task("junctionPrepare") \in done
    /\ pc' = "update"
    /\ done' = {}
    /\ UNCHANGED <<InternalStep, DT, rpcCount, lanes, trafficLight, lightWrites>>
    /\ UNCHANGED personVars

\* JunctionManager.Update, after which Context.update returns
SignalUpdate(lanePressure) ==
    /\ pc = "update"
    /\ trafficLight' = [j \in SignalJunctions |->
                          Junction_update(trafficLight[j], j, DT,
                                          IF j = "J4" THEN lanePressure
                                          ELSE NoPressure(j))]
    /\ pc' = "step"
    /\ UNCHANGED <<InternalStep, DT, done, rpcCount, lanes, lightWrites>>
    /\ UNCHANGED personVars

SignalNext ==
    \/ \E j \in SignalJunctions, ok \in BOOLEAN : SetTrafficLightStatus(j, ok)
    \/ \E j \in SignalJunctions, index \in PhaseIndexes, remaining \in TimesRemaining :
         SetTrafficLightPhase(j, index, remaining)
    \/ SignalStepReturn
    \/ SignalPrepare
    \/ SignalPrepareJoin
    \/ \E lanePressure \in CrossingPressures : SignalUpdate(lanePressure)

SignalSpec == SignalInit /\ [][SignalNext]_vars

\* --------------------------------------------------- the vehicle controller
\* One driving person on a lane without end: controller.update chooses the
\* acceleration and refreshRuntime applies it.  Speeds are counted in units
\* of 0.1 m/s and accelerations in units of 0.1 m/s^2; what the policies ask
\* for and the draw of the person's random generator are inputs of a step.
Drivers == {1}

\* vehicleAttr.MaxBrakingAcceleration and vehicleAttr.MaxAcceleration
maxBrakingA == -60
maxA == 20

\* maxNoiseA = 0.5 and zeroAThreshold = 0.1
maxNoiseA == 5
zeroAThreshold == 1

\* the smallest acceleration policyCarFollow, policyLane and planLaneChange
\* ask for: policyCarFollow keeps it at or below maxA, SetBrakeAcc can ask
\* for more braking than maxBrakingA
PolicyAccelerations ==
    {maxBrakingA - 20, maxBrakingA, -1, 0, 1, maxA}

\* maxNoiseA * Clamp(.5 * NormFloat64(), -1, 1): the extremes, a small draw
\* of either sign and none
Noises == {0 - maxNoiseA, -1, 0, 1, maxNoiseA}

\* lo.Clamp, math.Abs and math.Signbit
Clamp(x, lo, hi) == IF x < lo THEN lo ELSE IF x > hi THEN hi ELSE x
Abs(x) == IF x < 0 THEN 0 - x ELSE x
Signbit(x) == x < 0

\* the post-processing of controller.update: clamp, then add the noise
\* unless the acceleration is almost zero or the noise flips its sign
Perturb(a, noise) ==
    IF Abs(a) >= zeroAThreshold /\ Signbit(a) = Signbit(a + noise)
    THEN a + noise ELSE a

controller_update(a, noise) == Perturb(Clamp(a, maxBrakingA, maxA), noise)

\* computeVAndDistance: the speed after dt seconds, the distance in units of
\* 0.1 m
computeVAndDistance(v, a, dt) ==
    IF v + a * dt < 0
    THEN [V |-> 0, distance |-> (v * v) \div (2 * (0 - a))]
    ELSE [V |-> v + a * dt, distance |-> ((2 * v + a * dt) * dt) \div 2]

DrivingInit ==
    /\ pc = "update"
    /\ InternalStep = 0
    /\ DT = 1
    /\ done = {}
    /\ crashed = FALSE
    /\ runtime = [p \in Drivers |-> [Status |-> "DRIVING", V |-> 0,
                                     Action |-> [A |-> 0]]]
    /\ snapshot = <<>>
    /\ vehicle = <<>>
    /\ pedestrian = <<>>
    /\ schedule = <<>>
    /\ newSchedule = <<>>
    /\ scheduleResetFlag = <<>>
    /\ resetPos = <<>>
    /\ close = FALSE
    /\ multiModalRoute = <<>>
    /\ inflight = <<>>
    /\ waiting = {}
    /\ rpcCount = 0
    /\ response = <<>>
    /\ nodes = <<>>
    /\ lanes = <<>>
    /\ aois = <<>>
    /\ trafficLight = <<>>
    /\ lightWrites = <<>>
    /\ committed = <<>>
    /\ perceived = {}

\* Person.updateVehicle of one tick: the controller's action is stored in
\* the runtime and refreshRuntime moves the vehicle
DriveUpdate(p, a, noise) ==
    /\ pc = "update"
    /\ InternalStep + 1 < END_STEP
    /\ LET acc == controller_update(a, noise)
           r == computeVAndDistance(runtime[p].V, acc, DT)
       IN  runtime' = [runtime EXCEPT ![p].Action.A = acc, ![p].V = r.V]
    /\ InternalStep' = InternalStep + 1
    /\ UNCHANGED <<resetPos, close, response, pc, DT, done, crashed, snapshot, vehicle, pedestrian, schedule,
                   newSchedule, scheduleResetFlag, multiModalRoute, inflight,
                   waiting, rpcCount, nodes, lanes, aois, trafficLight,
                   lightWrites, committed, perceived>>

DrivingNext ==
    \E p \in Drivers, a \in PolicyAccelerations, noise \in Noises : DriveUpdate(p, a, noise)

DrivingSpec == DrivingInit /\ [][DrivingNext]_vars

\* ------------------------------------------- requests to the person manager
\* the run of Spec with the driver created one unit further down its lane, so
\* that its moves end on the junction lane, and with requests to reset a
\* person's position
ControlHome(p) == IF p = 2 THEN Pos("L1", 1, nil) ELSE Home(p)

\* the reset-position requests: the steps they arrive in, the persons and the
\* positions they name: an AOI, a lane position, none and both
ResetSteps == {1, 3}
ResetPersons == {1}
ResetPositions == {Pos(nil, 0, "A3"), Pos("W1", 1, nil), NoPos, Pos("W1", 1, "A3")}

ControlInit ==
    /\ pc = "step"
    /\ InternalStep = 0
    /\ DT = 1
    /\ done = {}
    /\ crashed = FALSE
    /\ runtime = [p \in Persons |->
                    [newPersonRuntime(p) EXCEPT !.S = ControlHome(p).S]]
    /\ snapshot = [p \in Persons |-> zeroRuntime]
    /\ vehicle = [p \in Persons |-> [node |-> NoNode, shadowNode |-> NoNode]]
    /\ pedestrian = [p \in Persons |-> [node |-> NoNode]]
    /\ schedule = [p \in Persons |-> [base |-> <<>>, TripIndex |-> 0, seq |-> 0]]
    /\ newSchedule \in [Persons -> UNION {InitialSchedules(p) : p \in Persons}]
    /\ \A p \in Persons : newSchedule[p] \in InitialSchedules(p)
    /\ scheduleResetFlag = [p \in Persons |-> TRUE]
    /\ resetPos = [p \in Persons |-> NoPos]
    /\ close = FALSE
    /\ multiModalRoute = [p \in Persons |-> newMultiModalRoute]
    /\ inflight = [p \in Persons |-> {}]
    /\ waiting = {}
    /\ rpcCount = 0
    /\ response = <<>>
    /\ nodes = [n \in Nodes |-> freeNode]
    /\ lanes = [l \in Lanes |-> newLane]
    /\ aois = [a \in Aois |->
                 [newAoi EXCEPT !.addPersonBuffer =
                      IF a = "A1" THEN <<1>> ELSE <<>>]]
    /\ trafficLight = [j \in Junctions |-> newJunction(j)]
    /\ lightWrites = [l \in JunctionLaneSet |-> <<>>]
    /\ committed = [person |-> [p \in Persons |-> zeroRuntime],
                    key |-> [n \in Nodes |-> 0],
                    vehicles |-> [l \in Lanes |-> <<>>]]
    /\ perceived = {}

\* PersonManager.ResetPersonPosition, served while Run waits in sidecar.Step:
\* refused for a request with no or with two positions and for a person
\* whose Status(), the status of the snapshot, is not SLEEP
ResetPersonPosition(p, pos) ==
    /\ pc = "step" /\ ~crashed
    /\ rpcCount < MaxRpc
    /\ InternalStep \in ResetSteps
    /\ IF \/ pos.Aoi # nil /\ pos.Lane # nil
          \/ pos.Aoi = nil /\ pos.Lane = nil
          \/ snapshot[p].Status # "SLEEP"
       THEN /\ response' = Append(response,
                                 Response("ResetPersonPosition", p, "invalid_argument"))
            /\ UNCHANGED resetPos
       ELSE /\ resetPos' = [resetPos EXCEPT ![p] = pos]
            /\ response' = Append(response, Response("ResetPersonPosition", p, "ok"))
    /\ rpcCount' = rpcCount + 1
    /\ UNCHANGED <<close, DT, pc, InternalStep, done, crashed, runtime, snapshot, vehicle,
                   pedestrian, schedule, newSchedule, scheduleResetFlag,
                   multiModalRoute, inflight, waiting, nodes, lanes, aois,
                   trafficLight, lightWrites, committed, perceived>>

ControlNext ==
    \/ \E p \in RequestPersons, s \in RequestSchedules : SetSchedule(p, s)
    \/ ExternalStop
    \/ \E repeated \in BOOLEAN : StepReturn(repeated)
    \/ \E p \in Persons : PrepareNode(p)
    \/ PersonManagerPrepare
    \/ LaneManagerPrepare
    \/ JunctionManagerPrepare
    \/ AoiManagerPrepare
    \/ PrepareJoin
    \/ \E p \in Persons : PersonWait(p)
    \/ \E p \in Persons : PersonUpdate(p)
    \/ \E p \in Persons : RouterDeliver(p)
    \/ AoiManagerUpdate
    \/ LaneManagerUpdate
    \/ JunctionManagerUpdate
    \/ UpdateJoin
    \/ \E p \in ResetPersons, pos \in ResetPositions : ResetPersonPosition(p, pos)

ControlSpec == ControlInit /\ [][ControlNext]_vars

\* ----------------------------------------------- a schedule set on the road
\* A longer run in which person 2, driving on L1 from s = 1, is given new
\* schedules by two SetSchedule requests: a walk to the far end of the
\* walking lane W1, or a trip by car.  Person 1 has no trip.
LongRun == END_STEP + 1
RescheduleRpc == MaxRpc + 1

walkW1 == Trip("WALK", "W1", <<>>)

RescheduleSteps == {2, 4}
RescheduleSchedules == {<<walkW1>>, <<driveA2pre>>}

RescheduleInit ==
    /\ pc = "step"
    /\ InternalStep = 0
    /\ DT = 1
    /\ done = {}
    /\ crashed = FALSE
    /\ runtime = [p \in Persons |->
                    [newPersonRuntime(p) EXCEPT !.S = ControlHome(p).S]]
    /\ snapshot = [p \in Persons |-> zeroRuntime]
    /\ vehicle = [p \in Persons |-> [node |-> NoNode, shadowNode |-> NoNode]]
    /\ pedestrian = [p \in Persons |-> [node |-> NoNode]]
    /\ schedule = [p \in Persons |-> [base |-> <<>>, TripIndex |-> 0, seq |-> 0]]
    /\ newSchedule = [p \in Persons |-> IF p = 2 THEN <<driveA2pre>> ELSE <<>>]
    /\ scheduleResetFlag = [p \in Persons |-> TRUE]
    /\ resetPos = [p \in Persons |-> NoPos]
    /\ close = FALSE
    /\ multiModalRoute = [p \in Persons |-> newMultiModalRoute]
    /\ inflight = [p \in Persons |-> {}]
    /\ waiting = {}
    /\ rpcCount = 0
    /\ response = <<>>
    /\ nodes = [n \in Nodes |-> freeNode]
    /\ lanes = [l \in Lanes |-> newLane]
    /\ aois = [a \in Aois |->
                 [newAoi EXCEPT !.addPersonBuffer =
                      IF a = "A1" THEN <<1>> ELSE <<>>]]
    /\ trafficLight = [j \in Junctions |-> newJunction(j)]
    /\ lightWrites = [l \in JunctionLaneSet |-> <<>>]
    /\ committed = [person |-> [p \in Persons |-> zeroRuntime],
                    key |-> [n \in Nodes |-> 0],
                    vehicles |-> [l \in Lanes |-> <<>>]]
    /\ perceived = {}

\* Context.Run for a run of LongRun steps
RescheduleStepReturn(repeated) ==
    /\ pc = "step" /\ ~crashed
    /\ IF InternalStep > 0 /\ (InternalStep + 1 >= LongRun \/ close)
       THEN /\ ~CloseWaits
            /\ pc' = "closed"
            /\ UNCHANGED <<InternalStep, lightWrites, perceived, close>>
       ELSE /\ pc' = "prepare"
            /\ InternalStep' = InternalStep + 1
            /\ lightWrites' = [l \in JunctionLaneSet |-> <<>>]
            /\ perceived' = {}
            /\ close' = (close /\ repeated)
    /\ response' = <<>>
    /\ done' = {}
    /\ UNCHANGED <<resetPos, DT, crashed, runtime, snapshot, vehicle, pedestrian, schedule,
                   newSchedule, scheduleResetFlag, multiModalRoute, inflight,
                   waiting, rpcCount, nodes, lanes, aois, trafficLight, committed>>

RescheduleNext ==
    \/ \E s \in RescheduleSchedules : SetScheduleIn(RescheduleSteps, RescheduleRpc, 2, s)
    \/ ExternalStop
    \/ \E repeated \in BOOLEAN : RescheduleStepReturn(repeated)
    \/ \E p \in Persons : PrepareNode(p)
    \/ PersonManagerPrepare
    \/ LaneManagerPrepare
    \/ JunctionManagerPrepare
    \/ AoiManagerPrepare
    \/ PrepareJoin
    \/ \E p \in Persons : PersonWait(p)
    \/ \E p \in Persons : PersonUpdateIn(p, InternalStep + 1 = LongRun)
    \/ \E p \in Persons : RouterDeliver(p)
    \/ AoiManagerUpdate
    \/ LaneManagerUpdate
    \/ JunctionManagerUpdate
    \/ UpdateJoin

RescheduleSpec == RescheduleInit /\ [][RescheduleNext]_vars

\* ------------------------------------------------- a pedestrian crossing
\* one pedestrian walks along W1, over the crossing JW of junction J4 and
\* along W2; J4 is under the Max-Pressure controller
Walkers == {1}
CrossingOrder == <<"W1", "JW", "W2", "JA", "JB">>
CrossingWorld == {"W1", "JW", "W2", "JA", "JB"}
CrossingRoute == <<[Lane |-> "W1", forward |-> TRUE], [Lane |-> "JW", forward |-> TRUE],
                   [Lane |-> "W2", forward |-> TRUE]>>

\* where on W1 the pedestrian sets out
WalkStarts == {0, 1, 2}

\* the trip of the pedestrian: on foot to the far end of W2
walkW2 == Trip("WALK", nil, <<>>)

\* the node newPedestrianNode gives the pedestrian in updateGoOut
FirstNode(w) == FreshNode([n \in Nodes |-> freeNode], w)

\* the route of the pedestrian from s0 on W1
WalkerRoute(s0) ==
    [newMultiModalRoute EXCEPT
       !.Start = Pos("W1", s0, nil), !.End = Pos("W2", Length("W2"), nil),
       !.ok = TRUE, !.MultiModalType = "WALK", !.forTrip = 1,
       !.PedestrianRoute =
          PedestrianProcessInputJourney(CrossingRoute, Pos("W1", s0, nil),
                                        Pos("W2", Length("W2"), nil))]

\* the state after updateGoOut has put the pedestrian on W1: its node waits
\* in the add buffer of the lane
CrossingInit ==
    /\ pc = "step"
    /\ InternalStep = 0
    /\ DT = 1
    /\ done = {}
    /\ crashed = FALSE
    /\ \E s0 \in WalkStarts :
         /\ runtime = [w \in Walkers |->
                         [zeroRuntime EXCEPT !.Status = "WALKING", !.Lane = "W1", !.S = s0]]
         /\ multiModalRoute = [w \in Walkers |-> WalkerRoute(s0)]
         /\ nodes = [n \in Nodes |->
                       IF n = FirstNode(1)
                       THEN [S |-> s0, parent |-> NoList, Value |-> 1, links |-> NoLinks]
                       ELSE freeNode]
    /\ pedestrian = [w \in Walkers |-> [node |-> FirstNode(w)]]
    /\ schedule = [w \in Walkers |-> [base |-> <<walkW2>>, TripIndex |-> 0, seq |-> 1]]
    /\ lanes = [l \in CrossingWorld |->
                  IF l = "W1"
                  THEN [newLane EXCEPT !.pedestrians.addBuffer = <<FirstNode(1)>>]
                  ELSE newLane]
    /\ snapshot = [w \in Walkers |-> zeroRuntime]
    /\ vehicle = [w \in Walkers |-> [node |-> NoNode, shadowNode |-> NoNode]]
    /\ newSchedule = [w \in Walkers |-> <<>>]
    /\ scheduleResetFlag = [w \in Walkers |-> FALSE]
    /\ resetPos = [w \in Walkers |-> NoPos]
    /\ close = FALSE
    /\ inflight = [w \in Walkers |-> {}]
    /\ waiting = {}
    /\ rpcCount = 0
    /\ response = <<>>
    /\ aois = <<>>
    /\ trafficLight = [j \in {"J4"} |-> newJunction(j)]
    /\ lightWrites = [l \in CrossingLanes |-> <<>>]
    /\ committed = <<>>
    /\ perceived = {}

crossingVars == <<DT, crashed, vehicle, newSchedule, scheduleResetFlag, resetPos, close,
                  inflight, waiting, response, aois, committed, perceived>>

\* JunctionManager.SetTrafficLightStatus for the junction of the crossing
CrossingSetStatus(ok) ==
    /\ pc = "step"
    /\ rpcCount < MaxRpc
    /\ trafficLight' = [trafficLight EXCEPT !["J4"] = Junction_setStatus(@, ok)]
    /\ rpcCount' = rpcCount + 1
    /\ UNCHANGED <<pc, InternalStep, done, runtime, snapshot, pedestrian, schedule,
                   multiModalRoute, nodes, lanes, lightWrites>>
    /\ UNCHANGED crossingVars

\* Context.Run between two ticks, as in StepReturn
CrossingStepReturn ==
    /\ pc = "step"
    /\ IF InternalStep > 0 /\ InternalStep + 1 >= END_STEP
       THEN /\ pc' = "closed"
            /\ UNCHANGED <<InternalStep, lightWrites>>
       ELSE /\ pc' = "prepare"
            /\ InternalStep' = InternalStep + 1
            /\ lightWrites' = [l \in CrossingLanes |-> <<>>]
    /\ UNCHANGED <<done, rpcCount, runtime, snapshot, pedestrian, schedule,
                   multiModalRoute, nodes, lanes, trafficLight>>
    /\ UNCHANGED crossingVars

\* Context.prepare, the junctions: rl is the outcome of the lanes' prepare
CrossingJunctionsPrepare(rl) ==
    /\ ~rl.panic
    /\ nodes' = rl.nodes
    /\ LET rj == JunctionsPrepare(<<"J4">>, trafficLight, rl.lanes, lightWrites,
                                  "prepare", 1)
       IN  /\ lanes' = rj.lanes
           /\ trafficLight' = rj.tls
           /\ lightWrites' = rj.writes

\* Context.prepare: Person.prepareNode and Person.prepare, then Lane.prepare
\* for every lane, then Junction.prepare
CrossingPrepare ==
    /\ pc = "prepare"
    /\ CrossingJunctionsPrepare(
         LanesPrepare(CrossingOrder, lanes,
                      prepareNode(nodes, runtime[1], vehicle[1], pedestrian[1]), 1))
    /\ snapshot' = runtime
    /\ pc' = "update"
    /\ UNCHANGED <<InternalStep, done, rpcCount, runtime, pedestrian, schedule,
                   multiModalRoute>>
    /\ UNCHANGED crossingVars

\* what Person.update leaves behind
CrossingUpdateReturns(r) ==
    /\ ~r.panic
    /\ runtime' = [runtime EXCEPT ![1] = r.rt]
    /\ pedestrian' = [pedestrian EXCEPT ![1] = r.ped]
    /\ schedule' = [schedule EXCEPT ![1] = r.sch]
    /\ multiModalRoute' = [multiModalRoute EXCEPT ![1] = r.mr]
    /\ nodes' = r.nodes
    /\ lanes' = r.lanes

\* Context.update: Person.update and Junction.update
CrossingUpdate(lanePressure) ==
    /\ pc = "update"
    /\ CrossingUpdateReturns(
         PersonUpdateBody(UpdateState(1), snapshot[1], 1, nil, 0, 0, FALSE))
    /\ trafficLight' = [trafficLight EXCEPT !["J4"] =
                          Junction_update(@, "J4", DT, lanePressure)]
    /\ pc' = "step"
    /\ UNCHANGED <<InternalStep, done, rpcCount, snapshot, lightWrites>>
    /\ UNCHANGED crossingVars

CrossingNext ==
    \/ \E ok \in BOOLEAN : CrossingSetStatus(ok)
    \/ CrossingStepReturn
    \/ CrossingPrepare
    \/ \E lanePressure \in CrossingPressures : CrossingUpdate(lanePressure)

CrossingSpec == CrossingInit /\ [][CrossingNext]_vars

\* ---------------------------------------------------- two runs of one input
\* Two runs of the simulator on the same map, persons and seeds, side by
\* side: every variable holds, per run, what it holds in one run.  Both
\* persons live in the same AOI and drive the same way, down a lane of one
\* road without a neighbour lane that does not end within the run, so that
\* policyLane and planLaneChange ask for nothing.  Lengths are counted in
\* units of 0.1 m, speeds in 0.1 m/s and accelerations in 0.1 m/s^2, each
\* quotient rounded down to the unit.
Runs == {1, 2}
Twins == {1, 2}
TwinLane == "L3"

\* the orders in which the workers of parallel.GoFor can reach the persons
WorkerOrders == {<<1, 2>>, <<2, 1>>}

\* the steps at which the second person's trip is due; the first person's
\* is due at once
DepartureSteps == {1, 2}

\* the draws of the persons' generators in one step
TwinNoises == {0 - maxNoiseA, 0, maxNoiseA}

\* Aoi.DrivingS: the gate of the persons' AOI on the lane
TwinGateS == 100

\* vehicleAttr: Length 5 m, MinGap 1 m, Headway 1.5 s (in tenths of a
\* second), UsualBrakingAcceleration -2 m/s^2, MaxSpeed 30 m/s
vehicleLength == 50
minGap == 10
headway == 15
usualBrakingA == -20
maxV == 300

\* Lane.MaxV times the controller's laneMaxVRatio
laneMaxV == 60

idmTheta == 4

Min(a, b) == IF a < b THEN a ELSE b
Max(a, b) == IF a > b THEN a ELSE b

\* math.Sqrt, rounded down
Sqrt(x) == CHOOSE r \in 0..x : r * r <= x /\ (r + 1) * (r + 1) > x

\* math.Pow with a whole exponent
RECURSIVE Pow(_, _)
Pow(x, n) == IF n = 0 THEN 1 ELSE x * Pow(x, n - 1)

\* controller.followImpl before its clamp: the intelligent driver model;
\* a distance of mathutil.INF leaves no gap term
followImpl(selfV, targetV, aheadV, distance) ==
    IF distance <= 0 THEN 0 - INF
    ELSE LET s_star == minGap + Max(0, (selfV * headway) \div 10
                                      + (selfV * (selfV - aheadV))
                                          \div (2 * Sqrt((0 - usualBrakingA) * maxA)))
             free == (maxA * Pow(selfV, idmTheta)) \div Pow(targetV, idmTheta)
             gap == IF distance >= INF THEN 0
                    ELSE (maxA * s_star * s_star) \div (distance * distance)
         IN  maxA - free - gap

\* controller.selfFollow
selfFollow(selfV, aheadV, distance) ==
    Clamp(followImpl(selfV, Min(maxV, laneMaxV), aheadV, distance), maxBrakingA, maxA)

\* ListNode.Next in a list
ListNext(list, n) ==
    IF \E i \in 1..Len(list) - 1 : list[i] = n
    THEN list[(CHOOSE i \in 1..Len(list) - 1 : list[i] = n) + 1]
    ELSE NoNode

\* Person.Length
PersonLength(sn) == IF sn.Status = "DRIVING" THEN vehicleLength ELSE 0

\* controller.getEnv: the vehicle ahead is the next node of the lane's list
getEnv(st, p) ==
    LET aheadHint == ListNext(st.lanes[st.rt[p].Lane].vehicles.list, st.veh[p].node)
    IN  IF aheadHint = NoNode THEN [node |-> NoNode, distance |-> INF]
        ELSE [node |-> aheadHint,
              distance |-> st.nodes[aheadHint].S - st.rt[p].S
                           - PersonLength(st.sn[st.nodes[aheadHint].Value])]

\* controller.policyCarFollow
policyCarFollow(st, p, e) ==
    selfFollow(st.rt[p].V,
               IF e.node # NoNode THEN st.sn[st.nodes[e.node].Value].V ELSE 0,
               e.distance)

\* Person.updateVehicle: the controller's action, then refreshRuntime
TwinUpdateVehicle(st, p, dt, noise) ==
    LET acc == controller_update(policyCarFollow(st, p, getEnv(st, p)), noise)
        r == computeVAndDistance(st.sn[p].V, acc, dt)
    IN  [st EXCEPT !.rt[p].Action.A = acc, !.rt[p].V = r.V,
                   !.rt[p].S = @ + r.distance]

\* MultiModalRoute.ProduceRouting: the request is on its way to the router
TwinRequest == [ok |-> FALSE, start |-> NoPos, waitCh |-> 1]

\* MultiModalRoute.Wait: the router's answer, from the gate down the lane
TwinRoute == [ok |-> TRUE, start |-> Pos(TwinLane, TwinGateS, nil), waitCh |-> 0]

\* Person.updateGoOut of a driving trip
TwinGoOut(st, p) ==
    LET start == st.mr[p].start
        nd == NewNode(NewNode(st.nodes, p, start.S, p), p + 2, start.S, p)
    IN  AddVehicle([st EXCEPT !.rt[p].Status = "DRIVING",
                              !.rt[p].Lane = start.Lane,
                              !.rt[p].S = start.S,
                              !.rt[p].Aoi = nil,
                              !.nodes = nd,
                              !.veh[p] = [node |-> p, shadowNode |-> p + 2]],
                   start.Lane, p)

\* Person.update
TwinPersonUpdate(st, p, step, dt, noise) ==
    CASE st.rt[p].Status = "SLEEP" ->
           IF step >= st.sch[p].departure
           THEN [st EXCEPT !.mr[p] = TwinRequest, !.rt[p].Status = "WAIT_ROUTE"]
           ELSE st
      [] st.rt[p].Status = "WAIT_ROUTE" ->
           \* routeSuccessful: the router has found the way
           TwinGoOut([st EXCEPT !.mr[p] = TwinRoute], p)
      [] OTHER -> TwinUpdateVehicle(st, p, dt, noise)

\* PersonManager.Update: the persons' updates in the order in which the
\* workers reach them
RECURSIVE TwinPersonsUpdate(_, _, _, _, _, _)
TwinPersonsUpdate(st, order, i, step, dt, draw) ==
    IF i > Len(order) THEN st
    ELSE TwinPersonsUpdate(TwinPersonUpdate(st, order[i], step, dt, draw[order[i]]),
                           order, i + 1, step, dt, draw)

\* one run's state as the operators above take it
TwinState(r) ==
    [rt |-> runtime[r], sn |-> snapshot[r], veh |-> vehicle[r], sch |-> schedule[r],
     mr |-> multiModalRoute[r], nodes |-> nodes[r], lanes |-> lanes[r],
     panic |-> FALSE]

\* newPerson: asleep at home
newTwinRuntime ==
    [Status |-> "SLEEP", Lane |-> nil, S |-> 0, Aoi |-> "A2", V |-> 0,
     Action |-> [A |-> 0], LC |-> noLC]

TwinInit ==
    /\ pc = "step"
    /\ InternalStep = 0
    /\ DT = 1
    /\ done = {}
    /\ crashed = FALSE
    /\ runtime = [r \in Runs |-> [p \in Twins |-> newTwinRuntime]]
    /\ snapshot = [r \in Runs |-> [p \in Twins |-> newTwinRuntime]]
    /\ vehicle = [r \in Runs |-> [p \in Twins |-> [node |-> NoNode, shadowNode |-> NoNode]]]
    /\ pedestrian = [r \in Runs |-> [p \in Twins |-> [node |-> NoNode]]]
    /\ \E d \in DepartureSteps :
         schedule = [r \in Runs |-> [p \in Twins |->
                       [departure |-> IF p = 1 THEN 1 ELSE d]]]
    /\ newSchedule = <<>>
    /\ scheduleResetFlag = <<>>
    /\ resetPos = <<>>
    /\ close = FALSE
    /\ multiModalRoute = [r \in Runs |-> [p \in Twins |-> [ok |-> FALSE, start |-> NoPos, waitCh |-> 0]]]
    /\ inflight = <<>>
    /\ waiting = {}
    /\ rpcCount = 0
    /\ response = <<>>
    /\ nodes = [r \in Runs |-> [n \in Nodes |-> freeNode]]
    /\ lanes = [r \in Runs |-> [l \in {TwinLane} |-> newLane]]
    /\ aois = <<>>
    /\ trafficLight = <<>>
    /\ lightWrites = <<>>
    /\ committed = <<>>
    /\ perceived = {}

twinVars == <<DT, done, crashed, pedestrian, schedule, newSchedule, scheduleResetFlag,
              resetPos, close, inflight, waiting, rpcCount, response, aois, trafficLight,
              lightWrites, committed, perceived>>

\* Context.Run between two ticks of both runs, for the ticks before the
\* last one, whose update ends every trip
TwinStepReturn ==
    /\ pc = "step"
    /\ InternalStep + 2 < END_STEP
    /\ pc' = "prepare"
    /\ InternalStep' = InternalStep + 1
    /\ UNCHANGED <<runtime, snapshot, vehicle, multiModalRoute, nodes, lanes>>
    /\ UNCHANGED twinVars

\* PersonManager.PrepareNode of one run
RECURSIVE TwinPrepareNode(_, _, _, _)
TwinPrepareNode(nd, rt, veh, p) ==
    IF p \notin Twins THEN nd
    ELSE TwinPrepareNode(prepareNode(nd, rt[p], veh[p], [node |-> NoNode]), rt, veh, p + 1)

\* Context.prepare of both runs: Person.prepareNode and Person.prepare,
\* then Lane.prepare; rl is the outcome of the lanes' prepare per run
TwinPrepareReturns(rl) ==
    /\ \A r \in Runs : ~rl[r].panic
    /\ nodes' = [r \in Runs |-> rl[r].nodes]
    /\ lanes' = [r \in Runs |-> rl[r].lanes]

TwinPrepare ==
    /\ pc = "prepare"
    /\ TwinPrepareReturns(
         [r \in Runs |->
            LanesPrepare(<<TwinLane>>, lanes[r],
                         TwinPrepareNode(nodes[r], runtime[r], vehicle[r], 1), 1)])
    /\ snapshot' = runtime
    /\ runtime' = [r \in Runs |-> [p \in Twins |->
                     IF runtime[r][p].Status = "DRIVING"
                     THEN [runtime[r][p] EXCEPT !.Action = [A |-> 0]]
                     ELSE runtime[r][p]]]
    /\ pc' = "update"
    /\ UNCHANGED <<InternalStep, vehicle, multiModalRoute>>
    /\ UNCHANGED twinVars

\* what PersonManager.Update leaves behind in each run
TwinUpdateReturns(u) ==
    /\ \A r \in Runs : ~u[r].panic
    /\ runtime' = [r \in Runs |-> u[r].rt]
    /\ vehicle' = [r \in Runs |-> u[r].veh]
    /\ multiModalRoute' = [r \in Runs |-> u[r].mr]
    /\ nodes' = [r \in Runs |-> u[r].nodes]
    /\ lanes' = [r \in Runs |-> u[r].lanes]

\* Context.update of both runs: the generators draw the same numbers, the
\* workers of each run reach the persons in an order of their own
TwinUpdate(draw, order) ==
    /\ pc = "update"
    /\ TwinUpdateReturns(
         [r \in Runs |->
            TwinPersonsUpdate(TwinState(r), order[r], 1, InternalStep, DT, draw)])
    /\ pc' = "step"
    /\ UNCHANGED <<InternalStep, snapshot>>
    /\ UNCHANGED twinVars

TwinNext ==
    \/ TwinStepReturn
    \/ TwinPrepare
    \/ \E draw \in [Twins -> TwinNoises], order \in [Runs -> WorkerOrders] :
         TwinUpdate(draw, order)

TwinSpec == TwinInit /\ [][TwinNext]_vars

\* ------------------------------------------------- a list put in order
\* One container.List on its own, as its test drives it: the list is built
\* from nodes with any keys, PopUnsorted is called, and its result is handed
\* to Merge. Here nodes maps a node to its key and parent, lanes holds the
\* List (the chain from head to tail and the field length) and the slice
\* PopUnsorted returned, committed holds the chain as it was built.
TestList == <<"list">>
TestKeys == 0..(MaxLen - 1)

\* List.Len
ListLen(l) == l.length

ListInit ==
    /\ pc = "built"
    /\ \E n \in 0..MaxLen : \E key \in [1..n -> TestKeys] :
          /\ nodes = [k \in 1..n |-> [S |-> key[k], parent |-> TestList, Value |-> 0]]
          /\ lanes = [list |-> [k \in 1..n |-> k], length |-> n, unsorted |-> <<>>]
          /\ committed = [k \in 1..n |-> k]
    /\ InternalStep = 0
    /\ DT = 1
    /\ done = {}
    /\ crashed = FALSE
    /\ runtime = <<>>
    /\ snapshot = <<>>
    /\ vehicle = <<>>
    /\ pedestrian = <<>>
    /\ schedule = <<>>
    /\ newSchedule = <<>>
    /\ scheduleResetFlag = <<>>
    /\ resetPos = <<>>
    /\ close = FALSE
    /\ multiModalRoute = <<>>
    /\ inflight = <<>>
    /\ waiting = {}
    /\ rpcCount = 0
    /\ response = <<>>
    /\ aois = <<>>
    /\ trafficLight = <<>>
    /\ lightWrites = <<>>
    /\ perceived = {}

listVars == <<InternalStep, DT, done, crashed, runtime, snapshot, vehicle, pedestrian,
              schedule, newSchedule, scheduleResetFlag, resetPos, close,
              multiModalRoute, inflight, waiting, rpcCount, response, aois,
              trafficLight, lightWrites, committed, perceived>>

\* unsorted := l.PopUnsorted(): List.Remove of every popped node clears its
\* parent and counts length down
ListPopUnsorted ==
    /\ pc = "built"
    /\ LET pop == PopUnsorted(lanes.list, [k \in DOMAIN nodes |-> nodes[k].S])
       IN  /\ lanes' = [list |-> pop.list,
                        length |-> lanes.length - Len(pop.unsorted),
                        unsorted |-> pop.unsorted]
           /\ nodes' = [k \in DOMAIN nodes |->
                          IF k \in SeqToSet(pop.unsorted)
                          THEN [nodes[k] EXCEPT !.parent = NoList] ELSE nodes[k]]
    /\ pc' = "popped"
    /\ UNCHANGED listVars

\* l.Merge(unsorted): InsertBefore and PushBack set the parent of every
\* added node and count length up
ListMerge ==
    /\ pc = "popped"
    /\ lanes' = [lanes EXCEPT
                   !.list = Merge(lanes.list, lanes.unsorted,
                                  [k \in DOMAIN nodes |-> nodes[k].S]),
                   !.length = @ + Len(lanes.unsorted)]
    /\ nodes' = [k \in DOMAIN nodes |->
                   IF k \in SeqToSet(lanes.unsorted)
                   THEN [nodes[k] EXCEPT !.parent = TestList] ELSE nodes[k]]
    /\ pc' = "merged"
    /\ UNCHANGED listVars

ListTestNext ==
    \/ ListPopUnsorted
    \/ ListMerge

ListSpec == ListInit /\ [][ListTestNext]_vars

\* ------------------------------------------------- actions combined
\* Action.Update on its own: runtime holds the receiver, the actions handed
\* to Update and the number of "start lane change conflict" errors logged,
\* committed holds the receiver as it was before the call.
ActionAs == {-2, -1, 0}
ActionTargets == {nil, "L1", "L2"}
ActionPhis == {0, 1}
MaxOthers == 2

\* the values of Action: a target comes with its angle
Actions ==
    {ac \in [A : ActionAs, LCTarget : ActionTargets, LCPhi : ActionPhis] :
        ac.LCTarget = nil => ac.LCPhi = 0}

\* Action.Update: the loop over others
RECURSIVE ActionUpdate(_, _, _)
ActionUpdate(a, others, log) ==
    IF others = <<>> THEN [Action |-> a, log |-> log]
    ELSE LET o == Head(others)
             a1 == IF o.A < a.A THEN [a EXCEPT !.A = o.A] ELSE a
         IN  IF o.LCTarget # nil
             THEN ActionUpdate([a1 EXCEPT !.LCTarget = o.LCTarget, !.LCPhi = o.LCPhi],
                               Tail(others),
                               IF a1.LCTarget # nil THEN log + 1 ELSE log)
             ELSE ActionUpdate(a1, Tail(others), log)

ActionInit ==
    /\ pc = "given"
    /\ \E a \in Actions, n \in 0..MaxOthers : \E others \in [1..n -> Actions] :
          /\ runtime = [Action |-> a, others |-> others, log |-> 0]
          /\ committed = a
    /\ InternalStep = 0
    /\ DT = 1
    /\ done = {}
    /\ crashed = FALSE
    /\ snapshot = <<>>
    /\ vehicle = <<>>
    /\ pedestrian = <<>>
    /\ schedule = <<>>
    /\ newSchedule = <<>>
    /\ scheduleResetFlag = <<>>
    /\ resetPos = <<>>
    /\ close = FALSE
    /\ multiModalRoute = <<>>
    /\ inflight = <<>>
    /\ waiting = {}
    /\ rpcCount = 0
    /\ response = <<>>
    /\ nodes = <<>>
    /\ lanes = <<>>
    /\ aois = <<>>
    /\ trafficLight = <<>>
    /\ lightWrites = <<>>
    /\ perceived = {}

actionVars == <<InternalStep, DT, done, crashed, snapshot, vehicle, pedestrian,
                schedule, newSchedule, scheduleResetFlag, resetPos, close,
                multiModalRoute, inflight, waiting, rpcCount, response, nodes,
                lanes, aois, trafficLight, lightWrites, committed, perceived>>

\* ac.Update(others...)
ActionCombine ==
    /\ pc = "given"
    /\ LET r == ActionUpdate(runtime.Action, runtime.others, runtime.log)
       IN  runtime' = [runtime EXCEPT !.Action = r.Action, !.log = r.log]
    /\ pc' = "combined"
    /\ UNCHANGED actionVars

ActionNext == ActionCombine

ActionSpec == ActionInit /\ [][ActionNext]_vars

\* ------------------------------------------------- any fixed program
\* The fixed-program controller of a junction with one lane, for every
\* program that Set accepts: one to MaxPhases phases, each with a duration
\* and a state of the lane.  Here trafficLight is the localTrafficLight, with
\* the program itself in the tl field of a localTlRuntime, and lanes holds
\* the light of the junction's lane.
ProgramLanes == <<"JL">>
ProgramDurations == {0, 1, 2}
ProgramStates == {"GREEN", "RED"}
JunctionIDs == {0, 1}
Programs ==
    UNION {[1..n -> [Duration : ProgramDurations,
                     States : [1..Len(ProgramLanes) -> ProgramStates]]] :
           n \in 1..MaxPhases}

\* a localTlRuntime without a program, and the nil buffer
NoProgram == <<>>
nilBuffer == [tl |-> NoProgram, tlStep |-> -1, tlTotalTime |-> 0, tlRemainingT |-> 0]

\* localTrafficLight.Set of a program with phases, one state per lane in
\* each: the phase to start in is the junction id modulo the number of phases
localTl_Set(tl, prog) ==
    LET phaseIndex == tl.JunctionID % Len(prog)
    IN  [tl EXCEPT !.buffer = [tl |-> prog, tlStep |-> phaseIndex, tlTotalTime |-> 0,
                               tlRemainingT |-> prog[phaseIndex + 1].Duration]]

\* NewLocalTrafficLight followed by the Set call of the junction's constructor
NewLocalTrafficLight(id, prog) ==
    localTl_Set([JunctionID |-> id, timeBeforeChange |-> <<>>,
                 snapshot |-> [tl |-> NoProgram, tlStep |-> 0, tlTotalTime |-> 0,
                               tlRemainingT |-> 0],
                 runtime |-> [tl |-> NoProgram, tlStep |-> 0, tlTotalTime |-> 0,
                              tlRemainingT |-> 0],
                 buffer |-> nilBuffer, ok |-> TRUE, okBuffer |-> TRUE], prog)

\* localTrafficLight.Prepare
localTl_Prepare(tl, ls) ==
    LET t1 == [tl EXCEPT !.ok = tl.okBuffer, !.snapshot = tl.runtime]
        js == ProgramLanes
        off == t1.snapshot.tl = NoProgram \/ ~t1.ok
        step == t1.snapshot.tlStep + 1
        states == IF off THEN AllGreen(js) ELSE t1.snapshot.tl[step].States
        total == IF off THEN AllINF(js)
                 ELSE [i \in 1..Len(js) |->
                         t1.snapshot.tlTotalTime + t1.timeBeforeChange[i][step]]
        remaining == IF off THEN AllINF(js)
                     ELSE [i \in 1..Len(js) |->
                             t1.snapshot.tlRemainingT + t1.timeBeforeChange[i][step]]
        r == SetLights(ls, [l \in SeqToSet(js) |-> <<>>], js, states, total, remaining,
                       "prepare", 1)
    IN  [tl |-> t1, lanes |-> r.lanes]

\* the loop at the end of localTrafficLight.Update: it ends in the first
\* phase that brings the remaining time above zero; when it comes back to
\* the phase and the remaining time it started with, it goes round for ever
RECURSIVE localTl_NextPhase(_, _, _, _)
localTl_NextPhase(prog, step, remaining, first) ==
    LET s == (step + 1) % Len(prog)
        r == remaining + prog[s + 1].Duration
    IN  IF r > 0 THEN [tlStep |-> s, tlRemainingT |-> r, returns |-> TRUE]
        ELSE IF s = first /\ r = 0
        THEN [tlStep |-> s, tlRemainingT |-> r, returns |-> FALSE]
        ELSE localTl_NextPhase(prog, s, r, first)

\* localTrafficLight.Update
localTl_Update(tl, dt) ==
    LET t1 == IF tl.buffer = nilBuffer THEN tl
              ELSE [tl EXCEPT !.runtime = tl.buffer, !.buffer = nilBuffer,
                              !.timeBeforeChange =
                                 IF tl.buffer.tl # NoProgram
                                 THEN @ \o TimeBeforeChange(tl.buffer.tl, Len(ProgramLanes))
                                 ELSE @]
        rem == t1.runtime.tlRemainingT - dt
        n == localTl_NextPhase(t1.runtime.tl, t1.runtime.tlStep, 0, t1.runtime.tlStep)
    IN  IF t1.runtime.tl = NoProgram \/ ~t1.ok THEN [tl |-> t1, returns |-> TRUE]
        ELSE IF rem > 0
        THEN [tl |-> [t1 EXCEPT !.runtime.tlRemainingT = rem], returns |-> TRUE]
        ELSE [tl |-> [t1 EXCEPT !.runtime.tlStep = n.tlStep,
                                !.runtime.tlTotalTime = n.tlRemainingT,
                                !.runtime.tlRemainingT = n.tlRemainingT],
              returns |-> n.returns]

ProgramInit ==
    /\ pc = "prepare"
    /\ InternalStep = 1
    /\ DT = 1
    /\ \E id \in JunctionIDs, prog \in Programs :
          trafficLight = NewLocalTrafficLight(id, prog)
    /\ lanes = [l \in SeqToSet(ProgramLanes) |->
                  [lightState |-> "GREEN", lightStateTotalTime |-> INF,
                   lightStateRemainingTime |-> INF]]
    /\ done = {}
    /\ crashed = FALSE
    /\ runtime = <<>>
    /\ snapshot = <<>>
    /\ vehicle = <<>>
    /\ pedestrian = <<>>
    /\ schedule = <<>>
    /\ newSchedule = <<>>
    /\ scheduleResetFlag = <<>>
    /\ resetPos = <<>>
    /\ close = FALSE
    /\ multiModalRoute = <<>>
    /\ inflight = <<>>
    /\ waiting = {}
    /\ rpcCount = 0
    /\ response = <<>>
    /\ nodes = <<>>
    /\ aois = <<>>
    /\ lightWrites = <<>>
    /\ committed = <<>>
    /\ perceived = {}

programVars == <<DT, done, crashed, runtime, snapshot, vehicle, pedestrian, schedule,
                 newSchedule, scheduleResetFlag, resetPos, close, multiModalRoute,
                 inflight, waiting, rpcCount, response, nodes, aois, lightWrites,
                 committed, perceived>>

\* Context.prepare: the controller's Prepare
ProgramPrepare ==
    /\ pc = "prepare"
    /\ LET r == localTl_Prepare(trafficLight, lanes)
       IN  trafficLight' = r.tl /\ lanes' = r.lanes
    /\ pc' = "update"
    /\ UNCHANGED InternalStep
    /\ UNCHANGED programVars

\* Context.update: the controller's Update, and the next tick when it returns
ProgramUpdate ==
    /\ pc = "update"
    /\ InternalStep + 1 < END_STEP
    /\ LET r == localTl_Update(trafficLight, DT)
       IN  /\ trafficLight' = r.tl
           /\ IF r.returns
              THEN pc' = "prepare" /\ InternalStep' = InternalStep + 1
              ELSE pc' = "hang" /\ UNCHANGED InternalStep
    /\ UNCHANGED lanes
    /\ UNCHANGED programVars

ProgramNext ==
    \/ ProgramPrepare
    \/ ProgramUpdate

ProgramSpec == ProgramInit /\ [][ProgramNext]_vars

\* ------------------------------------------- requests to a fixed controller
\* The fixed-program controller of a junction with one lane under the
\* requests of JunctionManager: SetTrafficLight with a program (or with no
\* phase, which unsets it), a phase index and a remaining time,
\* SetTrafficLightPhase and GetTrafficLight.  The junction is built with
\* FixedProgram: only such a junction has a fixed controller.
LongProgram == <<[Duration |-> 1, States |-> <<"RED">>],
                 [Duration |-> 1, States |-> <<"RED">>],
                 [Duration |-> 2, States |-> <<"GREEN">>]>>
RemotePrograms == {FixedProgram, LongProgram}
RemoteIndexes == 0..MaxPhases
RemoteTimes == {-1, 1, 2}
RemoteCalls == MaxRpc

\* localTrafficLight.Unset
localTl_Unset(tl) ==
    [tl EXCEPT !.buffer = [tl |-> NoProgram, tlStep |-> 0, tlTotalTime |-> 0,
                           tlRemainingT |-> 0]]

\* localTrafficLight.SetPhase: nothing is done while no program runs
localTl_SetPhase(tl, offset, remainingT) ==
    IF tl.runtime.tl = NoProgram THEN tl
    ELSE IF tl.buffer # nilBuffer
    THEN [tl EXCEPT !.buffer.tlRemainingT = remainingT, !.buffer.tlStep = offset]
    ELSE [tl EXCEPT !.buffer = [tl |-> tl.runtime.tl, tlStep |-> offset,
                                tlTotalTime |-> 0, tlRemainingT |-> remainingT]]

\* the answer to a request, with the request it answers
RemoteAnswer(method, prog, index, remaining, code) ==
    [method |-> method, prog |-> prog, index |-> index, remaining |-> remaining,
     code |-> code]

RemoteInit ==
    /\ pc = "step"
    /\ InternalStep = 0
    /\ DT = 1
    /\ \E id \in JunctionIDs : trafficLight = NewLocalTrafficLight(id, FixedProgram)
    /\ lanes = [l \in SeqToSet(ProgramLanes) |->
                  [lightState |-> "GREEN", lightStateTotalTime |-> INF,
                   lightStateRemainingTime |-> INF]]
    /\ done = {}
    /\ crashed = FALSE
    /\ runtime = <<>>
    /\ snapshot = <<>>
    /\ vehicle = <<>>
    /\ pedestrian = <<>>
    /\ schedule = <<>>
    /\ newSchedule = <<>>
    /\ scheduleResetFlag = <<>>
    /\ resetPos = <<>>
    /\ close = FALSE
    /\ multiModalRoute = <<>>
    /\ inflight = <<>>
    /\ waiting = {}
    /\ rpcCount = 0
    /\ response = <<>>
    /\ nodes = <<>>
    /\ aois = <<>>
    /\ lightWrites = <<>>
    /\ committed = <<>>
    /\ perceived = {}

remoteVars == <<DT, done, runtime, snapshot, vehicle, pedestrian, schedule,
                newSchedule, scheduleResetFlag, resetPos, close, multiModalRoute,
                inflight, waiting, nodes, aois, lightWrites, committed, perceived>>

\* JunctionManager.SetTrafficLight
RemoteSetTrafficLight(prog, index, remaining) ==
    /\ pc = "step" /\ ~crashed
    /\ rpcCount < RemoteCalls
    /\ IF prog = NoProgram
       THEN /\ trafficLight' = localTl_Unset(trafficLight)
            /\ response' = Append(response,
                  RemoteAnswer("SetTrafficLight", prog, index, remaining, "ok"))
       ELSE IF remaining < 0
       THEN /\ response' = Append(response,
                  RemoteAnswer("SetTrafficLight", prog, index, remaining,
                               "invalid_argument"))
            /\ UNCHANGED trafficLight
       ELSE /\ trafficLight' = localTl_SetPhase(localTl_Set(trafficLight, prog),
                                                index, remaining)
            /\ response' = Append(response,
                  RemoteAnswer("SetTrafficLight", prog, index, remaining, "ok"))
    /\ rpcCount' = rpcCount + 1
    /\ UNCHANGED <<pc, InternalStep, lanes, crashed>>
    /\ UNCHANGED remoteVars

\* JunctionManager.SetTrafficLightPhase
RemoteSetTrafficLightPhase(index, remaining) ==
    /\ pc = "step" /\ ~crashed
    /\ rpcCount < RemoteCalls
    /\ IF remaining < 0
       THEN /\ response' = Append(response,
                  RemoteAnswer("SetTrafficLightPhase", NoProgram, index, remaining,
                               "invalid_argument"))
            /\ UNCHANGED trafficLight
       ELSE /\ trafficLight' = localTl_SetPhase(trafficLight, index, remaining)
            /\ response' = Append(response,
                  RemoteAnswer("SetTrafficLightPhase", NoProgram, index, remaining,
                               "ok"))
    /\ rpcCount' = rpcCount + 1
    /\ UNCHANGED <<pc, InternalStep, lanes, crashed>>
    /\ UNCHANGED remoteVars

\* JunctionManager.GetTrafficLight: the program, the phase and the remaining
\* time of the snapshot, or an empty answer without a program
RemoteGetTrafficLight ==
    /\ pc = "step" /\ ~crashed
    /\ rpcCount < RemoteCalls
    /\ response' = Append(response,
          IF trafficLight.snapshot.tl = NoProgram
          THEN RemoteAnswer("GetTrafficLight", NoProgram, 0, 0, "ok")
          ELSE RemoteAnswer("GetTrafficLight", trafficLight.snapshot.tl,
                            trafficLight.snapshot.tlStep,
                            trafficLight.snapshot.tlRemainingT, "ok"))
    /\ rpcCount' = rpcCount + 1
    /\ UNCHANGED <<pc, InternalStep, trafficLight, lanes, crashed>>
    /\ UNCHANGED remoteVars

\* Context.Run
RemoteStepReturn ==
    /\ pc = "step" /\ ~crashed
    /\ IF InternalStep > 0 /\ InternalStep + 1 >= END_STEP
       THEN pc' = "closed" /\ UNCHANGED InternalStep
       ELSE pc' = "prepare" /\ InternalStep' = InternalStep + 1
    /\ response' = <<>>
    /\ UNCHANGED <<trafficLight, lanes, crashed, rpcCount>>
    /\ UNCHANGED remoteVars

\* the controller of a prepare that has copied the runtime: it runs a program
Running(tl) == tl.snapshot.tl # NoProgram /\ tl.ok

\* Phases[tlStep] does not exist
PhaseOutOfRange(tl) == tl.snapshot.tlStep \notin 0..(Len(tl.snapshot.tl) - 1)

\* timeBeforeChange[i][tlStep] does not exist for a lane i
TableOutOfRange(tl) ==
    \E i \in 1..Len(ProgramLanes) :
       \/ i > Len(tl.timeBeforeChange)
       \/ tl.snapshot.tlStep + 1 > Len(tl.timeBeforeChange[i])

\* Context.prepare: the controller's Prepare; an index out of range aborts
\* the process after ok and the snapshot are written
RemotePrepare ==
    /\ pc = "prepare" /\ ~crashed
    /\ LET t1 == [trafficLight EXCEPT !.ok = trafficLight.okBuffer,
                                      !.snapshot = trafficLight.runtime]
       IN  IF Running(t1) /\ (PhaseOutOfRange(t1) \/ TableOutOfRange(t1))
           THEN /\ crashed' = TRUE
                /\ trafficLight' = t1
                /\ UNCHANGED <<pc, lanes>>
           ELSE /\ trafficLight' = localTl_Prepare(trafficLight, lanes).tl
                /\ lanes' = localTl_Prepare(trafficLight, lanes).lanes
                /\ pc' = "update"
                /\ UNCHANGED crashed
    /\ UNCHANGED <<InternalStep, rpcCount, response>>
    /\ UNCHANGED remoteVars

\* Context.update: the controller's Update
RemoteUpdate ==
    /\ pc = "update" /\ ~crashed
    /\ trafficLight' = localTl_Update(trafficLight, DT).tl
    /\ pc' = "step"
    /\ UNCHANGED <<InternalStep, lanes, crashed, rpcCount, response>>
    /\ UNCHANGED remoteVars

RemoteNext ==
    \/ \E prog \in RemotePrograms \cup {NoProgram}, index \in RemoteIndexes,
          remaining \in RemoteTimes : RemoteSetTrafficLight(prog, index, remaining)
    \/ \E index \in RemoteIndexes, remaining \in RemoteTimes :
          RemoteSetTrafficLightPhase(index, remaining)
    \/ RemoteGetTrafficLight
    \/ RemoteStepReturn
    \/ RemotePrepare
    \/ RemoteUpdate

RemoteSpec == RemoteInit /\ [][RemoteNext]_vars

\* ------------------------------------------------- Max-Pressure alone
\* The Max-Pressure controller of junction J4 with three phases to choose
\* from, for several settings of its flags.  Here committed holds the flags
\* tl.mp_* of the run, trafficLight the mpTrafficLight, lanes the lights of
\* the junction's lanes and perceived what GetPressure returned for each of
\* them in the last Update.
PressureLanes == JunctionLanes("J4")
PressurePhases == <<<<"GREEN", "RED", "GREEN">>, <<"RED", "GREEN", "RED">>,
                    <<"GREEN", "GREEN", "RED">>>>
LanePressures == {<<a, b, 0>> : a \in {0, 1, 2}, b \in {0, 1, 2}}
PressureIntervals == {5, 15}
PressureFlags ==
    [yellowTime : {0, yellowTime}, pedestrianClearTime : {0, pedestrianClearTime},
     allRedTime : {0, allRedTime}, phaseTime : {phaseTime},
     maxRepeatCount : {2, maxRepeatCount}]

\* the ticks of a run: enough for a phase to be repeated maxRepeatCount times
\* and left
PressureTicks == 2 * END_STEP

\* priorityQueue.Less
HeapLess(h, i, j) == h[i + 1].Priority < h[j + 1].Priority

\* down of container/heap: the item at i sinks below its smaller child
RECURSIVE HeapDown(_, _, _)
HeapDown(h, i, n) ==
    LET j1 == 2 * i + 1
        j == IF j1 + 1 < n /\ HeapLess(h, j1 + 1, j1) THEN j1 + 1 ELSE j1
    IN  IF j1 >= n THEN h
        ELSE IF ~HeapLess(h, j, i) THEN h
        ELSE HeapDown(Swap(h, i + 1, j + 1), j, n)

\* PriorityQueue.Heapify: heap.Init
RECURSIVE HeapInit(_, _)
HeapInit(h, i) == IF i < 0 THEN h ELSE HeapInit(HeapDown(h, i, Len(h)), i - 1)

Heapify(h) == HeapInit(h, (Len(h) \div 2) - 1)

\* PriorityQueue.HeapPop: heap.Pop
HeapPop(h) ==
    LET n == Len(h) - 1
        d == HeapDown(Swap(h, 1, n + 1), 0, n)
    IN  [Value |-> d[n + 1].Value, queue |-> SubSeq(d, 1, n)]

\* the queue mpTrafficLight.Update builds: Push(i, -pressure) for every
\* phase, then Heapify
RECURSIVE PushPhases(_, _, _, _)
PushPhases(queue, phases, lanePressure, i) ==
    IF i > Len(phases) THEN queue
    ELSE PushPhases(Append(queue, [Value |-> i - 1,
                                   Priority |-> 0 - PhasePressure(phases[i], lanePressure, 1)]),
                    phases, lanePressure, i + 1)

pressureHeap(phases, lanePressure) == Heapify(PushPhases(<<>>, phases, lanePressure, 1))

\* what the first and the second HeapPop of Update return
PressureOrder(phases, lanePressure) ==
    LET first == HeapPop(pressureHeap(phases, lanePressure))
    IN  <<first.Value, HeapPop(first.queue).Value>>

\* mpTrafficLight.Update
mpUpdateWith(tl, js, dt, order, flags) ==
    IF Len(tl.runtime.phases) < 2 \/ ~tl.ok THEN tl
    ELSE [tl EXCEPT !.runtime =
             mpClockWith(tl.runtime, tl.runtime.remainingT - dt, js, order, flags)]

PressureInit ==
    /\ pc = "prepare"
    /\ InternalStep = 1
    /\ DT \in PressureIntervals
    /\ committed \in PressureFlags
    /\ trafficLight = [kind |-> "mp", runtime |-> mpTlRuntime(PressurePhases),
                       snapshotRemainingT |-> 0, ok |-> TRUE, okBuffer |-> TRUE]
    /\ lanes = [l \in SeqToSet(PressureLanes) |->
                  [lightState |-> "GREEN", lightStateTotalTime |-> INF,
                   lightStateRemainingTime |-> INF]]
    /\ lightWrites = [l \in SeqToSet(PressureLanes) |-> <<>>]
    /\ done = {}
    /\ crashed = FALSE
    /\ runtime = <<>>
    /\ snapshot = <<>>
    /\ vehicle = <<>>
    /\ pedestrian = <<>>
    /\ schedule = <<>>
    /\ newSchedule = <<>>
    /\ scheduleResetFlag = <<>>
    /\ resetPos = <<>>
    /\ close = FALSE
    /\ multiModalRoute = <<>>
    /\ inflight = <<>>
    /\ waiting = {}
    /\ rpcCount = 0
    /\ response = <<>>
    /\ nodes = <<>>
    /\ aois = <<>>
    /\ perceived = <<0, 0, 0>>

pressureVars == <<DT, done, crashed, runtime, snapshot, vehicle, pedestrian, schedule,
                  newSchedule, scheduleResetFlag, resetPos, close, multiModalRoute,
                  inflight, waiting, rpcCount, response, nodes, aois, committed>>

\* Context.prepare: the controller's Prepare
PressurePrepare ==
    /\ pc = "prepare"
    /\ LET r == mpPrepareWith(trafficLight, lanes,
                              [l \in SeqToSet(PressureLanes) |-> <<>>],
                              PressureLanes, "prepare", committed)
       IN  /\ trafficLight' = r.tl
           /\ lanes' = r.lanes
           /\ lightWrites' = r.writes
    /\ pc' = "update"
    /\ UNCHANGED <<InternalStep, perceived>>
    /\ UNCHANGED pressureVars

\* Context.update: the controller's Update with the pressures the lanes
\* report, and the next tick
PressureUpdate(lanePressure) ==
    /\ pc = "update"
    /\ InternalStep < PressureTicks
    /\ trafficLight' = mpUpdateWith(trafficLight, PressureLanes, DT,
                                    PressureOrder(trafficLight.runtime.phases, lanePressure),
                                    committed)
    /\ perceived' = lanePressure
    /\ pc' = "prepare"
    /\ InternalStep' = InternalStep + 1
    /\ UNCHANGED <<lanes, lightWrites>>
    /\ UNCHANGED pressureVars

PressureNext ==
    \/ PressurePrepare
    \/ \E lanePressure \in LanePressures : PressureUpdate(lanePressure)

PressureSpec == PressureInit /\ [][PressureNext]_vars

\* ------------------------------------------------- a footpath over two crossings
\* One pedestrian walks along W1, over the crossing JU of junction J5, along
\* the short lane WS, over the crossing JV of junction J6 and along W2.  Both
\* junctions run the fixed program; the phase each starts in is its
\* junction id modulo the number of phases.
FootpathOrder == <<"W1", "JU", "WS", "JV", "W2">>
FootpathWorld == {"W1", "JU", "WS", "JV", "W2"}
FootpathJunctions == <<"J5", "J6">>
FootpathLights == {"JU", "JV"}
FootpathRoute == [i \in 1..Len(FootpathOrder) |-> [Lane |-> FootpathOrder[i], forward |-> TRUE]]

\* newJunction for a junction with the fixed program: NewLocalTrafficLight
\* and the Set call, which leaves the program in the buffer
newLocalJunction(id) ==
    LET phaseIndex == id % Len(FixedProgram)
    IN  [kind |-> "local", timeBeforeChange |-> <<>>,
         snapshot |-> localTlRuntime(FALSE, 0, 0),
         runtime |-> localTlRuntime(FALSE, 0, 0),
         buffer |-> localTlRuntime(TRUE, phaseIndex, FixedProgram[phaseIndex + 1].Duration),
         ok |-> TRUE, okBuffer |-> TRUE]

\* the route of the pedestrian from s0 on W1
FootpathWalk(s0) ==
    [newMultiModalRoute EXCEPT
       !.Start = Pos("W1", s0, nil), !.End = Pos("W2", Length("W2"), nil),
       !.ok = TRUE, !.MultiModalType = "WALK", !.forTrip = 1,
       !.PedestrianRoute =
          PedestrianProcessInputJourney(FootpathRoute, Pos("W1", s0, nil),
                                        Pos("W2", Length("W2"), nil))]

\* the state after updateGoOut has put the pedestrian on W1
FootpathInit ==
    /\ pc = "step"
    /\ InternalStep = 0
    /\ DT = 1
    /\ done = {}
    /\ crashed = FALSE
    /\ \E s0 \in WalkStarts :
         /\ runtime = [w \in Walkers |->
                         [zeroRuntime EXCEPT !.Status = "WALKING", !.Lane = "W1", !.S = s0]]
         /\ multiModalRoute = [w \in Walkers |-> FootpathWalk(s0)]
         /\ nodes = [n \in Nodes |->
                       IF n = FirstNode(1)
                       THEN [S |-> s0, parent |-> NoList, Value |-> 1, links |-> NoLinks]
                       ELSE freeNode]
    /\ pedestrian = [w \in Walkers |-> [node |-> FirstNode(w)]]
    /\ schedule = [w \in Walkers |-> [base |-> <<walkW2>>, TripIndex |-> 0, seq |-> 1]]
    /\ lanes = [l \in FootpathWorld |->
                  IF l = "W1"
                  THEN [newLane EXCEPT !.pedestrians.addBuffer = <<FirstNode(1)>>]
                  ELSE newLane]
    /\ snapshot = [w \in Walkers |-> zeroRuntime]
    /\ vehicle = [w \in Walkers |-> [node |-> NoNode, shadowNode |-> NoNode]]
    /\ newSchedule = [w \in Walkers |-> <<>>]
    /\ scheduleResetFlag = [w \in Walkers |-> FALSE]
    /\ resetPos = [w \in Walkers |-> NoPos]
    /\ close = FALSE
    /\ inflight = [w \in Walkers |-> {}]
    /\ waiting = {}
    /\ rpcCount = 0
    /\ response = <<>>
    /\ aois = <<>>
    /\ \E id5 \in JunctionIDs, id6 \in JunctionIDs :
         trafficLight = [j \in {"J5", "J6"} |->
                           newLocalJunction(IF j = "J5" THEN id5 ELSE id6)]
    /\ lightWrites = [l \in FootpathLights |-> <<>>]
    /\ committed = <<>>
    /\ perceived = {}

\* JunctionManager.SetTrafficLightStatus for one of the two junctions
FootpathSetStatus(j, ok) ==
    /\ pc = "step"
    /\ rpcCount < MaxRpc
    /\ trafficLight' = [trafficLight EXCEPT ![j] = Junction_setStatus(@, ok)]
    /\ rpcCount' = rpcCount + 1
    /\ UNCHANGED <<pc, InternalStep, done, runtime, snapshot, pedestrian, schedule,
                   multiModalRoute, nodes, lanes, lightWrites>>
    /\ UNCHANGED crossingVars

\* Context.Run between two ticks, as in StepReturn
FootpathStepReturn ==
    /\ pc = "step"
    /\ IF InternalStep > 0 /\ InternalStep + 1 >= END_STEP
       THEN /\ pc' = "closed"
            /\ UNCHANGED <<InternalStep, lightWrites>>
       ELSE /\ pc' = "prepare"
            /\ InternalStep' = InternalStep + 1
            /\ lightWrites' = [l \in FootpathLights |-> <<>>]
    /\ UNCHANGED <<done, rpcCount, runtime, snapshot, pedestrian, schedule,
                   multiModalRoute, nodes, lanes, trafficLight>>
    /\ UNCHANGED crossingVars

\* Context.prepare, the junctions: rl is the outcome of the lanes' prepare
FootpathJunctionsPrepare(rl) ==
    /\ ~rl.panic
    /\ nodes' = rl.nodes
    /\ LET rj == JunctionsPrepare(FootpathJunctions, trafficLight, rl.lanes, lightWrites,
                                  "prepare", 1)
       IN  /\ lanes' = rj.lanes
           /\ trafficLight' = rj.tls
           /\ lightWrites' = rj.writes

\* Context.prepare: Person.prepareNode and Person.prepare, then Lane.prepare
\* for every lane, then Junction.prepare
FootpathPrepare ==
    /\ pc = "prepare"
    /\ FootpathJunctionsPrepare(
         LanesPrepare(FootpathOrder, lanes,
                      prepareNode(nodes, runtime[1], vehicle[1], pedestrian[1]), 1))
    /\ snapshot' = runtime
    /\ pc' = "update"
    /\ UNCHANGED <<InternalStep, done, rpcCount, runtime, pedestrian, schedule,
                   multiModalRoute>>
    /\ UNCHANGED crossingVars

\* Context.update: Person.update and Junction.update
FootpathUpdate ==
    /\ pc = "update"
    /\ CrossingUpdateReturns(
         PersonUpdateBody(UpdateState(1), snapshot[1], 1, nil, 0, 0, FALSE))
    /\ trafficLight' = [j \in {"J5", "J6"} |-> Junction_update(trafficLight[j], j, DT, <<>>)]
    /\ pc' = "step"
    /\ UNCHANGED <<InternalStep, done, rpcCount, snapshot, lightWrites>>
    /\ UNCHANGED crossingVars

FootpathNext ==
    \/ \E j \in {"J5", "J6"}, ok \in BOOLEAN : FootpathSetStatus(j, ok)
    \/ FootpathStepReturn
    \/ FootpathPrepare
    \/ FootpathUpdate

FootpathSpec == FootpathInit /\ [][FootpathNext]_vars

\* the node pool never runs dry
NodePoolSuffices == \A q \in Persons : Cardinality(FreeNodes(nodes, q)) >= 2

\* ------------------------------------------------------------ properties
\* Context.prepare has done all its work and is about to return
EndOfPrepare == pc = "prepare" /\ done = PrepareTasks

\* LaneManager.Prepare of the current tick has returned and no update of the
\* tick has finished the phase yet
LanesPrepared == (pc = "prepare" /\ Task("lanePrepare") \in done) \/ pc = "update"

IsAscending(list) ==
    \A i \in 1..(Len(list) - 1) : nodes[list[i]].S <= nodes[list[i + 1]].S

Occurrences(list, n) == Cardinality({i \in 1..Len(list) : list[i] = n})

NodesOwnedBy(list, p) == {i \in 1..Len(list) : nodes[list[i]].Value = p}

IsPrefix(a, b) == Len(a) <= Len(b) /\ \A i \in 1..Len(a) : a[i] = b[i]

\* C1: once the lanes' prepare of a tick has run, and so at the end of every
\* prepare phase, the vehicle list of every driving lane is in ascending
\* order of the node keys S, whatever the preceding update added, removed or
\* moved.
C1_VehicleListsAscending ==
    LanesPrepared => \A l \in DrivingLanes : IsAscending(lanes[l].vehicles.list)

\* C1 witness: at the end of a prepare, two vehicles that were both in a
\* lane's list at the previous commit stand in it in the opposite order, with
\* strictly ascending keys: one has overtaken the other.
C1_Witness ==
    /\ EndOfPrepare
    /\ \E l \in DrivingLanes :
         \E i, j \in 1..Len(committed.vehicles[l]) :
           \E x, y \in 1..Len(lanes[l].vehicles.list) :
             /\ i < j /\ x < y
             /\ lanes[l].vehicles.list[x] = committed.vehicles[l][j]
             /\ lanes[l].vehicles.list[y] = committed.vehicles[l][i]
             /\ nodes[lanes[l].vehicles.list[x]].S < nodes[lanes[l].vehicles.list[y]].S

C3_LaneXorAoi ==
    ((pc = "prepare" /\ Task("personPrepare") \in done) \/ pc = "update") =>
      \A p \in Persons : (snapshot[p].Lane = nil) # (snapshot[p].Aoi = nil)

\* C3 witness: a committed snapshot in which a person who left its home AOI
\* over the lanes has arrived inside AOI A2 and another person is on a lane.
C3_Witness ==
    /\ pc = "update"
    /\ \E p \in Persons : snapshot[p].Aoi = "A2" /\ snapshot[p].Lane = nil
    /\ \E p \in Persons : snapshot[p].Lane # nil /\ snapshot[p].Aoi = nil

\* C4: every value a person's update has read about another agent (the key
\* of its list node, its speed, lane and lane-change flag) is the value the
\* preceding prepare committed.
C4_ReadsAreCommitted ==
    \A r \in perceived :
      /\ r.S = committed.key[r.node]
      /\ r.V = committed.person[r.owner].V
      /\ r.Lane = committed.person[r.owner].Lane
      /\ r.IsLC = committed.person[r.owner].LC.IsLC

\* C4 witness: a vehicle was read after its own update of the tick had
\* already changed its speed and position.
C4_Witness ==
    \E r \in perceived :
      /\ r.ownerDone
      /\ runtime[r.owner].V # r.V
      /\ runtime[r.owner].S # r.S

C6_RouteIsForCurrentTrip ==
    \A p \in Persons :
      runtime[p].Status \in {"DRIVING", "WALKING"} =>
        multiModalRoute[p].forTrip = schedule[p].seq

\* the tick's junction prepare has run
JunctionsPrepared ==
    \/ pc = "prepare" /\ Task("junctionPrepare") \in done
    \/ pc = "update"
    \/ pc \in {"step", "closed"} /\ InternalStep >= 1

\* C7 as stated: in every tick the light of every junction lane is assigned
\* exactly once, during prepare.
C7_Original ==
    JunctionsPrepared => \A l \in JunctionLaneSet : lightWrites[l] = <<"prepare">>

\* C7: in every tick the light of every lane of a junction that has a
\* controller is assigned exactly once, during prepare and not before the
\* junctions' prepare, and never during update; the lanes of a junction
\* without a controller are never assigned.
C7_ControlledLanesAssignedOnce ==
    \A l \in JunctionLaneSet :
      lightWrites[l] =
        IF JunctionsPrepared /\ trafficLight[ParentJunction(l)].kind # "none"
        THEN <<"prepare">> ELSE <<>>

\* C7 witness: during update, the fixed-program junction has turned its lane
\* red and the Max-Pressure junction has assigned its lane, once each.
C7_Witness ==
    /\ pc = "update" /\ done = UpdateTasks
    /\ lanes["JL"].lightState = "RED"
    /\ lightWrites["JL"] = <<"prepare">>
    /\ lightWrites["JX"] = <<"prepare">>

\* C8: in prepare, the lanes' list maintenance has run only if every
\* person's node keys were updated before, and the junction controllers have
\* run only if the persons' and the lanes' prepare had returned before.
C8_PrepareOrder ==
    pc = "prepare" =>
      /\ Task("lanePrepare") \in done => PrepareNodeDone
      /\ Task("personPrepare") \in done => PrepareNodeDone
      /\ Task("junctionPrepare") \in done =>
           (Task("lanePrepare") \in done /\ Task("personPrepare") \in done)

\* C8 witness: the junctions' prepare has run, after the lanes', while the
\* AOIs' prepare of the parallel branch has not.
C8_Witness ==
    /\ pc = "prepare"
    /\ Task("junctionPrepare") \in done
    /\ Task("aoiPrepare") \notin done
    /\ InternalStep >= 2

\* C9: the update phase of a tick starts only when every prepare call of the
\* tick has returned, it ends only when every update call has returned, and
\* no prepare call runs outside the prepare phase nor update call outside
\* the update phase.
C9_PhaseBarriers ==
    [][/\ (pc = "prepare" /\ pc' # "prepare") => (pc' = "update" /\ done = PrepareTasks)
       /\ (pc = "update" /\ pc' # "update") => (pc' = "step" /\ done = UpdateTasks)
       /\ (done' \ done) \cap PrepareTasks # {} => (pc = "prepare" /\ pc' = "prepare")
       /\ (done' \ done) \cap UpdateTasks # {} => (pc = "update" /\ pc' = "update")]_vars

\* C9 witness: the second tick's prepare is complete, after the first tick's
\* update was.
C9_Witness == InternalStep = 2 /\ EndOfPrepare

\* C10: during update no lane's vehicle or pedestrian list changes and the
\* add and remove buffers only grow at their end; a list changes only in the
\* lanes' prepare.
C10_ListsFrozenInUpdate ==
    [][/\ pc = "update" =>
            \A l \in Lanes : \A k \in {"vehicles", "pedestrians"} :
              /\ lanes'[l][k].list = lanes[l][k].list
              /\ IsPrefix(lanes[l][k].addBuffer, lanes'[l][k].addBuffer)
              /\ IsPrefix(lanes[l][k].removeBuffer, lanes'[l][k].removeBuffer)
       /\ (\E l \in Lanes : \E k \in {"vehicles", "pedestrians"} :
             lanes'[l][k].list # lanes[l][k].list) =>
            (/\ pc = "prepare"
             /\ Task("lanePrepare") \notin done
             /\ Task("lanePrepare") \in done')]_vars

\* C10 witness: during update one lane has a pending add and one a pending
\* remove while a list still holds the vehicle to be removed.
C10_Witness ==
    /\ pc = "update"
    /\ \E l \in Lanes : lanes[l].vehicles.addBuffer # <<>>
    /\ \E l \in Lanes :
         /\ lanes[l].vehicles.removeBuffer # <<>>
         /\ \A i \in 1..Len(lanes[l].vehicles.removeBuffer) :
              Occurrences(lanes[l].vehicles.list, lanes[l].vehicles.removeBuffer[i]) = 1

\* JunctionManager.Prepare of the current tick has returned in a run of the
\* signal controllers
SignalsPrepared == pc = "prepare" /\ Task("junctionPrepare") \in done

\* C11: at the end of every prepare the remaining time of the light of
\* every lane inside a junction is at least 0, under the fixed-program and
\* under the Max-Pressure controller
C11_RemainingTimeNonNegative ==
    SignalsPrepared =>
        \A l \in SignalLanes : lanes[l].lightStateRemainingTime >= 0

\* C12: the acceleration the controller selects and the vehicle applies lies
\* between maxBrakingA and maxA, for every vehicle and step
C12_AccelerationWithinLimits ==
    \A p \in Drivers :
        /\ runtime[p].Action.A >= maxBrakingA
        /\ runtime[p].Action.A <= maxA

\* the number of persons in the occupant sets of the AOIs, an occupant of
\* two AOIs counted twice
RECURSIVE Occupants(_)
Occupants(as) ==
    IF as = {} THEN 0
    ELSE LET a == CHOOSE x \in as : TRUE
         IN  Cardinality(aois[a].persons) + Occupants(as \ {a})

\* C13: persons are conserved and counted once: at the end of every prepare
\* the sizes of the AOIs' occupant sets and the number of persons whose lane
\* is set add up to the number of persons
C13_PersonsConserved ==
    EndOfPrepare =>
        Occupants(Aois) + Cardinality({p \in Persons : snapshot[p].Lane # nil})
            = Cardinality(Persons)

\* a prepare ends with one person inside an AOI and the other on a lane,
\* after a person has entered an AOI from a lane
C13_Witness ==
    /\ EndOfPrepare
    /\ \E p \in Persons : p \in aois["A2"].persons /\ committed.person[p].Lane # nil
    /\ \E q \in Persons : snapshot[q].Lane # nil

\* the status changes of the person life cycle
LifeCycle ==
    {<<"SLEEP", "WAIT_ROUTE">>, <<"WAIT_ROUTE", "WALKING">>,
     <<"WAIT_ROUTE", "DRIVING">>, <<"WALKING", "SLEEP">>,
     <<"DRIVING", "SLEEP">>, <<"WAIT_ROUTE", "SLEEP">>}

\* C14 as stated: every change of a person's status from one committed
\* snapshot to the next is SLEEP to WAIT_ROUTE, WAIT_ROUTE to WALKING or
\* DRIVING, WALKING or DRIVING to SLEEP, or WAIT_ROUTE to SLEEP; the
\* snapshot of the first step has no predecessor
C14_Original ==
    [][\A p \in Persons :
         \/ committed.person[p].Status = "UNSPECIFIED"
         \/ committed'.person[p].Status = committed.person[p].Status
         \/ <<committed.person[p].Status, committed'.person[p].Status>> \in LifeCycle]_vars

\* the status changes a set-schedule request adds: Person.prepare takes the
\* snapshot before ResetScheduleIfNeed puts the person to sleep, and the
\* update of the same step departs again
ResetChanges == {<<"DRIVING", "WAIT_ROUTE">>, <<"WALKING", "WAIT_ROUTE">>}

\* C14: every change of a person's status from one committed snapshot to
\* the next is a change of the life cycle or, after a set-schedule request,
\* WALKING or DRIVING to WAIT_ROUTE
C14_StatusLifeCycle ==
    [][\A p \in Persons :
         \/ committed.person[p].Status = "UNSPECIFIED"
         \/ committed'.person[p].Status = committed.person[p].Status
         \/ <<committed.person[p].Status, committed'.person[p].Status>>
                \in LifeCycle \cup ResetChanges]_vars

\* a prepare is about to commit WAIT_ROUTE for a person whose last committed
\* status is DRIVING, and the other person's status changes within the life
\* cycle
C14_Witness ==
    /\ EndOfPrepare
    /\ \E p \in Persons :
         /\ committed.person[p].Status = "DRIVING"
         /\ snapshot[p].Status = "WAIT_ROUTE"
    /\ \E q \in Persons :
         <<committed.person[q].Status, snapshot[q].Status>> \in LifeCycle

\* the update of person p returns in this step
UpdateReturned(p) ==
    pc = "update" /\ <<"update", p>> \notin done /\ <<"update", p>> \in done'

\* the update of person p finds that the router produced no journey
RouteFailed(p) ==
    UpdateReturned(p) /\ runtime[p].Status = "WAIT_ROUTE" /\ ~multiModalRoute[p].ok

SetScheduleAnswered(p) ==
    /\ Len(response') = Len(response) + 1
    /\ response'[Len(response')].method = "SetSchedule"
    /\ response'[Len(response')].person = p

\* C16: a set-schedule request for a person on a lane inside a junction is
\* answered with invalid-argument and leaves the person's schedule, the
\* schedule waiting to be installed, the status and the route as they are;
\* and whenever Person.prepare installs a new schedule the person is not on
\* a lane inside a junction
C16_NoScheduleChangeInJunction ==
    [][\A p \in Persons :
         /\ (SetScheduleAnswered(p) /\ runtime[p].Lane # nil /\ InJunction(runtime[p].Lane))
              => /\ response'[Len(response')].code = "invalid_argument"
                 /\ UNCHANGED <<schedule, newSchedule, scheduleResetFlag,
                                runtime, multiModalRoute>>
         /\ (scheduleResetFlag[p] /\ ~scheduleResetFlag'[p])
              => ~(runtime[p].Lane # nil /\ InJunction(runtime[p].Lane))]_vars

\* a set-schedule request for a driver on the junction lane was refused and
\* the schedule the driver follows is still in place
C16_Witness ==
    /\ pc = "step"
    /\ \E p \in Persons :
         /\ response = <<Response("SetSchedule", p, "invalid_argument")>>
         /\ runtime[p].Status = "DRIVING" /\ runtime[p].Lane = "JL"
         /\ ~scheduleResetFlag[p]
         /\ schedule[p].base = <<driveA2pre>>

\* a reset-position request for person p is answered in this step
ResetAnswered(p) ==
    /\ Len(response') = Len(response) + 1
    /\ response'[Len(response')].method = "ResetPersonPosition"
    /\ response'[Len(response')].person = p

\* C17: a reset-position request is accepted only for a person whose status
\* is SLEEP; a refused request is answered with invalid-argument and changes
\* nothing; and the update that follows an accepted request leaves the
\* person at the requested AOI or lane position
C17_ResetPosition ==
    [][\A p \in Persons :
         /\ (ResetAnswered(p) /\ response'[Len(response')].code = "ok")
              => snapshot[p].Status = "SLEEP" /\ resetPos'[p] # NoPos
         /\ (ResetAnswered(p) /\ snapshot[p].Status # "SLEEP")
              => /\ response'[Len(response')].code = "invalid_argument"
                 /\ UNCHANGED <<resetPos, close, runtime, snapshot, schedule, aois>>
         /\ (UpdateReturned(p) /\ resetPos[p] # NoPos)
              => /\ runtime'[p].Lane = resetPos[p].Lane
                 /\ runtime'[p].S = resetPos[p].S
                 /\ runtime'[p].Aoi = resetPos[p].Aoi]_vars

\* an accepted reset-position request has placed a person at AOI A3
C17_Placed ==
    /\ pc = "update" /\ rpcCount = 1
    /\ \E p \in Persons :
         /\ <<"update", p>> \in done
         /\ snapshot[p].Aoi = "A1" /\ runtime[p].Aoi = "A3"
         /\ p \in SeqToSet(aois["A3"].addPersonBuffer)

\* C18: at every prepare a junction whose controller's ok flag is false has
\* all its lanes written GREEN, under the fixed-program and under the
\* Max-Pressure controller
C18_DisabledIsAllGreen ==
    SignalsPrepared =>
        \A j \in SignalJunctions :
            ~trafficLight[j].ok =>
                \A i \in 1..Len(JunctionLanes(j)) :
                    /\ lanes[JunctionLanes(j)[i]].lightState = "GREEN"
                    /\ lightWrites[JunctionLanes(j)[i]] = <<"prepare">>

\* the Max-Pressure junction is switched off in a prepare after its first
\* update, while the fixed-program junction shows red
C18_Witness ==
    /\ SignalsPrepared
    /\ ~trafficLight["J4"].ok
    /\ InternalStep >= 2
    /\ lanes["JL"].lightState = "RED"

\* the fixed-program junction is switched off while its program stands in
\* the red phase
C18_WitnessFixed ==
    /\ SignalsPrepared
    /\ ~trafficLight["J1"].ok
    /\ trafficLight["J1"].snapshot.tl
    /\ FixedProgram[trafficLight["J1"].snapshot.tlStep + 1].States = <<"RED">>

\* Person.update of the pedestrian runs in this step
WalkerUpdates(w) == pc = "update" /\ pc' = "step" /\ runtime[w].Status = "WALKING"

\* the light of lane l is not green
RedLight(l) == lanes[l].lightState # "GREEN"

\* the lane after the pedestrian's lane on its route, nil on the last lane
LaneAhead(w) ==
    LET pr == multiModalRoute[w].PedestrianRoute
    IN  IF pr.indexRoute + 1 < Len(pr.route) THEN pr.route[pr.indexRoute + 2].Lane
        ELSE nil

\* the pedestrian's next step leaves its road lane for a walking lane inside
\* a junction
AtCrossing(w) ==
    /\ ~InJunction(runtime[w].Lane)
    /\ snapshot[w].S + walkingV > Length(runtime[w].Lane)
    /\ LaneAhead(w) # nil /\ InJunction(LaneAhead(w)) /\ IsWalkLane(LaneAhead(w))

\* C19 as stated: a pedestrian on a walking lane inside a junction whose
\* light is red leaves every update with speed 0
C19_Original ==
    [][\A w \in Walkers :
         (/\ WalkerUpdates(w)
          /\ InJunction(runtime[w].Lane) /\ IsWalkLane(runtime[w].Lane)
          /\ RedLight(runtime[w].Lane))
            => runtime'[w].V = 0]_vars

\* C19: a pedestrian about to step onto a walking lane inside a junction
\* whose light is red stays where it is with speed 0 in every step in which
\* the light is red, and in the step in which the light is green it steps
\* onto the lane with its walking speed
C19_WaitsAtRed ==
    [][\A w \in Walkers :
         (WalkerUpdates(w) /\ AtCrossing(w)) =>
            IF RedLight(LaneAhead(w))
            THEN /\ runtime'[w].V = 0
                 /\ runtime'[w].Lane = runtime[w].Lane
                 /\ runtime'[w].S = runtime[w].S
            ELSE /\ runtime'[w].V = walkingV
                 /\ runtime'[w].Lane = LaneAhead(w)]_vars

\* the pedestrian has waited in front of the red crossing and has stepped
\* onto it with its walking speed after the light was switched to green
C19_Witness ==
    /\ pc = "step" /\ InternalStep >= 3
    /\ \E w \in Walkers :
         /\ snapshot[w].Lane = "W1" /\ snapshot[w].V = 0
         /\ runtime[w].Lane = "JW" /\ runtime[w].V = walkingV
    /\ ~trafficLight["J4"].ok

\* C20: the two runs of the same map, persons and seeds hold the same
\* committed snapshots at every step, whatever the order in which the
\* workers of each run reached the persons.
C20_Deterministic == snapshot[1] = snapshot[2]

\* the case of C20: both persons left the AOI for the same lane in the same
\* update, the workers of the two runs reached them in different orders,
\* and the tick after has committed
C20_SameGateSameTick ==
    /\ pc = "update"
    /\ \A r \in Runs : Len(lanes[r][TwinLane].vehicles.list) = 2
    /\ lanes[1][TwinLane].vehicles.list # lanes[2][TwinLane].vehicles.list
    /\ \A r \in Runs, p \in Twins : nodes[r][p].S = TwinGateS

\* the runs agree as long as the persons leave in different ticks
C20_ApartAgrees ==
    /\ pc = "step"
    /\ schedule[1][2].departure = 2
    /\ InternalStep + 2 = END_STEP
    /\ snapshot[1] = snapshot[2]
    /\ runtime[1] = runtime[2]
    /\ \A p \in Twins : runtime[1][p].Status = "DRIVING"


C21_EndReached ==
    /\ pc = "closed" /\ ~crashed
    /\ ~close
    /\ InternalStep + 1 = END_STEP


\* C22: once the last tick is complete (the end step is reached or a stop
\* is signaled) and Run waits in its last sidecar.Step, Run closes, whether
\* or not requested routes are still undelivered.
C22_ShutdownDoesNotWait ==
    (/\ pc = "step" /\ ~crashed /\ InternalStep > 0
     /\ (InternalStep + 1 >= END_STEP \/ close))
        ~> (pc = "closed")

\* C22 witness: Run has closed after the last tick while a route requested
\* in it was never delivered
C22_Witness ==
    /\ pc = "closed" /\ ~crashed
    /\ \E p \in Persons :
         /\ inflight[p] # {}
         /\ runtime[p].Status = "WAIT_ROUTE"

\* before the last tick is complete an undelivered route does hold Run: the
\* person's update of the last tick stands in MultiModalRoute.Wait
C22_HeldInWait ==
    /\ pc = "update" /\ ~crashed
    /\ InternalStep + 1 = END_STEP
    /\ \E p \in waiting : WaitBlocks(p)

\* ------------------------------------------------- a lane prepared twice
\* no lane has an add or a remove waiting in a buffer
NoPendingLaneChanges ==
    \A l \in Lanes :
        /\ lanes[l].vehicles.addBuffer = <<>> /\ lanes[l].vehicles.removeBuffer = <<>>
        /\ lanes[l].pedestrians.addBuffer = <<>> /\ lanes[l].pedestrians.removeBuffer = <<>>

\* C23: once the lanes' prepare of a tick has run, and while no add or
\* remove is pending and no node key has changed, running the prepare of
\* every lane again leaves every list, the order of its nodes (their
\* neighbour links) and every node as they are, and does not panic
C23_PrepareTwice ==
    (LanesPrepared /\ ~crashed /\ NoPendingLaneChanges)
        => LanesPrepare(LaneOrder, lanes, nodes, 1)
               = [lanes |-> lanes, nodes |-> nodes, panic |-> FALSE]

\* a prepared lane holds two vehicle nodes with one key, nothing is pending
C23_Witness ==
    /\ LanesPrepared /\ ~crashed /\ NoPendingLaneChanges
    /\ \E l \in Lanes :
          /\ Len(lanes[l].vehicles.list) >= 2
          /\ \E i \in 1..(Len(lanes[l].vehicles.list) - 1) :
                nodes[lanes[l].vehicles.list[i]].S = nodes[lanes[l].vehicles.list[i + 1]].S

\* ------------------------------------------------- a list put in order
\* the chain of the list, counted from the head, has as many nodes as the
\* length field says, and its nodes, and only they, have the list as parent
ListLenRight ==
    /\ ListLen(lanes) = Len(lanes.list)
    /\ \A k \in DOMAIN nodes :
          (nodes[k].parent = TestList) <=> (k \in SeqToSet(lanes.list))

\* C24: for a list built in any key order, PopUnsorted leaves an ascending
\* list whose Len is the Len before minus the number of nodes returned,
\* and after Merge of the returned nodes the list holds exactly the nodes
\* it had before, each once, in ascending key order, with the Len it had
C24_PopMergeSorts ==
    /\ pc = "popped" =>
          /\ IsAscending(lanes.list)
          /\ ListLen(lanes) = Len(committed) - Len(lanes.unsorted)
          /\ ListLenRight
    /\ pc = "merged" =>
          /\ SeqToSet(lanes.list) = SeqToSet(committed)
          /\ \A k \in SeqToSet(committed) : Occurrences(lanes.list, k) = 1
          /\ IsAscending(lanes.list)
          /\ ListLen(lanes) = Len(committed)
          /\ ListLenRight

\* a full list was merged with two popped nodes that came out of order
C24_Witness ==
    /\ pc = "merged"
    /\ Len(committed) = MaxLen
    /\ Len(lanes.unsorted) >= 2
    /\ nodes[lanes.unsorted[1]].S > nodes[lanes.unsorted[2]].S
    /\ lanes.list # committed

\* ------------------------------------------------- actions combined
\* the lane-change targets supplied, the receiver's own first
SuppliedTargets ==
    SelectSeq(<<committed.LCTarget>> \o [i \in 1..Len(runtime.others) |->
                                           runtime.others[i].LCTarget],
              LAMBDA t : t # nil)

\* C25: the lane-change target of the combined action is the first non-nil
\* target supplied (none if none was supplied): a later action with another
\* target does not replace it
C25_FirstTargetWins ==
    pc = "combined" =>
        runtime.Action.LCTarget =
            (IF SuppliedTargets = <<>> THEN nil ELSE Head(SuppliedTargets))

\* what Action.Update computes: the last non-nil target supplied, with its
\* angle, the least acceleration, and one error per target that met a
\* target already set
C25_LastTargetWins ==
    pc = "combined" =>
        /\ runtime.Action.LCTarget =
              (IF SuppliedTargets = <<>> THEN nil
               ELSE SuppliedTargets[Len(SuppliedTargets)])
        /\ \A i \in 1..Len(runtime.others) : runtime.Action.A <= runtime.others[i].A
        /\ runtime.Action.A <= committed.A
        /\ runtime.log = IF SuppliedTargets = <<>> THEN 0
                         ELSE Len(SuppliedTargets) - 1

\* two actions with different targets were combined and the conflict logged
C25_Conflict ==
    /\ pc = "combined"
    /\ Len(SuppliedTargets) >= 2
    /\ SuppliedTargets[1] # SuppliedTargets[2]
    /\ runtime.log >= 1

\* ------------------------------------------------- any fixed program
\* the lane shows one state in every phase of the program
SameInEveryPhase(prog, lane) ==
    \A p \in 1..Len(prog) : prog[p].States[lane] = prog[1].States[lane]

\* the durations of the phases that follow phase step, cyclically, as long
\* as the lane keeps the state it has in phase step
RECURSIVE FollowingSameState(_, _, _, _)
FollowingSameState(prog, lane, step, k) ==
    LET q == (step + k) % Len(prog)
    IN  IF prog[q + 1].States[lane] # prog[step + 1].States[lane] THEN 0
        ELSE prog[q + 1].Duration + FollowingSameState(prog, lane, step, k + 1)

\* a program is running and the lights are on in the published state
ProgramRuns == trafficLight.snapshot.tl # NoProgram /\ trafficLight.ok

\* C26: the remaining time Prepare writes to a lane is the time until the
\* state of the lane next changes: the remaining time of the phase plus the
\* durations of the phases that follow, cyclically, while the lane keeps
\* its state, and infinite when the lane has one state in every phase
C26_TimeUntilChange ==
    (pc = "update" /\ ProgramRuns) =>
        \A i \in 1..Len(ProgramLanes) :
            LET sn == trafficLight.snapshot
                written == lanes[ProgramLanes[i]].lightStateRemainingTime
            IN  IF SameInEveryPhase(sn.tl, i) THEN written >= INF
                ELSE written = sn.tlRemainingT + FollowingSameState(sn.tl, i, sn.tlStep, 1)

\* a lane that changes its state in a program of two phases is told that
\* its state lasts for ever
C26_TwoPhases ==
    /\ pc = "update" /\ ProgramRuns
    /\ Len(trafficLight.snapshot.tl) = 2
    /\ ~SameInEveryPhase(trafficLight.snapshot.tl, 1)
    /\ lanes[ProgramLanes[1]].lightStateRemainingTime >= INF

\* a program of three phases in which the written time is the right one
C26_RightTime ==
    /\ pc = "update" /\ ProgramRuns
    /\ Len(trafficLight.snapshot.tl) = MaxPhases
    /\ ~SameInEveryPhase(trafficLight.snapshot.tl, 1)
    /\ FollowingSameState(trafficLight.snapshot.tl, 1, trafficLight.snapshot.tlStep, 1) > 0
    /\ lanes[ProgramLanes[1]].lightStateRemainingTime =
          trafficLight.snapshot.tlRemainingT
            + FollowingSameState(trafficLight.snapshot.tl, 1, trafficLight.snapshot.tlStep, 1)

\* the runtime Update works on: the buffer when Set or SetPhase left one
UpdatedRuntime ==
    IF trafficLight.buffer = nilBuffer THEN trafficLight.runtime ELSE trafficLight.buffer

HasPositiveDuration(prog) == \E p \in 1..Len(prog) : prog[p].Duration > 0

\* the first phase after step, cyclically, whose duration is positive
RECURSIVE NextPositive(_, _)
NextPositive(prog, step) ==
    LET s == (step + 1) % Len(prog)
    IN  IF prog[s + 1].Duration > 0 THEN s ELSE NextPositive(prog, s)

\* the remaining time of the running phase is used up by this Update
PhaseExpires ==
    /\ pc = "update"
    /\ UpdatedRuntime.tl # NoProgram /\ trafficLight.ok
    /\ UpdatedRuntime.tlRemainingT - DT <= 0

Advanced ==
    /\ trafficLight'.runtime.tlStep = NextPositive(UpdatedRuntime.tl, UpdatedRuntime.tlStep)
    /\ trafficLight'.runtime.tlRemainingT =
          UpdatedRuntime.tl[trafficLight'.runtime.tlStep + 1].Duration

\* C27: when the remaining time reaches zero in an Update, that Update
\* returns, for every program Set accepted, with the phase index at the next
\* phase, cyclically, whose duration is positive and with the remaining
\* time at that duration
C27_AdvanceCompletes ==
    [][PhaseExpires =>
          /\ pc' = "prepare"
          /\ HasPositiveDuration(UpdatedRuntime.tl)
          /\ Advanced]_vars

\* the same for the programs that have a phase with a positive duration
C27_AdvanceOfPositive ==
    [][(PhaseExpires /\ HasPositiveDuration(UpdatedRuntime.tl)) =>
          (pc' = "prepare" /\ Advanced)]_vars

\* an Update that does not return
C27_Hang == pc = "hang"

\* an Update has stepped over a phase without duration
C27_Skipped ==
    /\ pc = "prepare" /\ InternalStep > 1
    /\ trafficLight.runtime.tl # NoProgram
    /\ trafficLight.runtime.tlTotalTime = trafficLight.runtime.tlRemainingT
    /\ LET prog == trafficLight.runtime.tl
           before == (trafficLight.runtime.tlStep + Len(prog) - 1) % Len(prog)
       IN  Len(prog) = MaxPhases /\ prog[before + 1].Duration = 0

\* ------------------------------------------------- Max-Pressure alone
\* lane i turns from green to red, from red to green, between two phases
GreenToRed(cur, next, i) == cur[i] = "GREEN" /\ next[i] = "RED"
RedToGreen(cur, next, i) == cur[i] = "RED" /\ next[i] = "GREEN"

\* the stages the claim lists for a switch from cur to next: pedestrian-clear
\* if a walking lane goes green to red, yellow, all-red if a driving lane
\* goes red to green
StagesOf(cur, next) ==
    LET lanesOf == 1..Len(PressureLanes)
        walk(i) == IsWalkLane(PressureLanes[i])
        clear == [i \in lanesOf |->
                    IF GreenToRed(cur, next, i) /\ walk(i) THEN "YELLOW" ELSE cur[i]]
        yellow == [i \in lanesOf |->
                     IF GreenToRed(cur, next, i) THEN "YELLOW" ELSE cur[i]]
        allRed == [i \in lanesOf |->
                     IF RedToGreen(cur, next, i) /\ ~walk(i) THEN "RED" ELSE next[i]]
    IN  (IF \E i \in lanesOf : GreenToRed(cur, next, i) /\ walk(i)
         THEN <<clear>> ELSE <<>>)
        \o <<yellow>>
        \o (IF \E i \in lanesOf : RedToGreen(cur, next, i) /\ ~walk(i)
            THEN <<allRed>> ELSE <<>>)

\* what an Update may do to the phase and the stages of the transition
SwitchInStages(rt, rt1) ==
    /\ rt.transitionPhases = <<>> =>
          /\ rt1.index = rt.index
          /\ \/ rt1.transitionPhases = <<>>
             \/ /\ rt1.nextIndex # rt.index
                /\ rt1.transitionPhases =
                      StagesOf(rt.phases[rt.index + 1], rt.phases[rt1.nextIndex + 1])
    /\ Len(rt.transitionPhases) > 1 =>
          /\ rt1.index = rt.index /\ rt1.nextIndex = rt.nextIndex
          /\ rt1.transitionPhases \in {rt.transitionPhases, Tail(rt.transitionPhases)}
    /\ Len(rt.transitionPhases) = 1 =>
          \/ rt1.index = rt.index /\ rt1.transitionPhases = rt.transitionPhases
          \/ rt1.index = rt.nextIndex /\ rt1.transitionPhases = <<>>

\* C28: a switch of the Max-Pressure controller to another phase goes
\* through pedestrian-clear (if a walking lane goes green to red), yellow and
\* all-red (if a driving lane goes red to green), one stage for each expiry
\* of the clock, and enters the next phase only after the last stage; every
\* Prepare shows the lanes the stage, or the phase, the controller is in, and
\* no lane is shown red right after green
C28_SwitchInStages ==
    [][/\ pc = "update" => SwitchInStages(trafficLight.runtime, trafficLight'.runtime)
       /\ pc = "prepare" =>
             \A i \in 1..Len(PressureLanes) :
                /\ lanes'[PressureLanes[i]].lightState =
                      IF trafficLight.runtime.transitionPhases # <<>>
                      THEN trafficLight.runtime.transitionPhases[1][i]
                      ELSE trafficLight.runtime.phases[trafficLight.runtime.index + 1][i]
                /\ InternalStep > 1 =>
                      ~(/\ lanes[PressureLanes[i]].lightState = "GREEN"
                        /\ lanes'[PressureLanes[i]].lightState = "RED")]_vars

\* with the flags as they are by default, the controller has gone from the
\* first phase through the three stages into the second phase, and the lane
\* that was green is shown red
C28_Witness ==
    /\ pc = "update"
    /\ committed = mpFlags
    /\ InternalStep = 5
    /\ trafficLight.runtime.index = 1
    /\ trafficLight.runtime.transitionPhases = <<>>
    /\ lanes[PressureLanes[1]].lightState = "RED"

\* the last of three stages is shown: all red for the driving lanes
C28_AllRedShown ==
    /\ pc = "update"
    /\ trafficLight.runtime.nextIndex = 1 /\ trafficLight.runtime.index = 0
    /\ Len(trafficLight.runtime.transitionPhases) = 1
    /\ \A i \in 1..Len(PressureLanes) : lanes[PressureLanes[i]].lightState = "RED"

\* the pressure of phase index i under the pressures of the last Update
PressureOf(i, pressures) == PhasePressure(PressurePhases[i + 1], pressures, 1)

PhaseIndices == 0..(Len(PressurePhases) - 1)

\* phase i has a higher pressure than every other phase
StrictlyHighest(i, pressures) ==
    \A k \in PhaseIndices \ {i} : PressureOf(i, pressures) > PressureOf(k, pressures)

\* the clock of a phase, not of a transition stage, runs out in this Update
PhaseRunsOut ==
    /\ pc = "update"
    /\ trafficLight.runtime.transitionPhases = <<>>
    /\ trafficLight.runtime.remainingT - DT <= 0

Extended ==
    /\ trafficLight'.runtime.transitionPhases = <<>>
    /\ trafficLight'.runtime.index = trafficLight.runtime.index
    /\ trafficLight'.runtime.repeatCount = trafficLight.runtime.repeatCount + 1
    /\ trafficLight'.runtime.remainingT =
          trafficLight.runtime.remainingT - DT + committed.phaseTime

\* the controller leaves for a phase of the highest pressure among the others
LeftForNextHighest ==
    /\ trafficLight'.runtime.transitionPhases # <<>>
    /\ trafficLight'.runtime.index = trafficLight.runtime.index
    /\ trafficLight'.runtime.nextIndex # trafficLight.runtime.index
    /\ \A k \in PhaseIndices \ {trafficLight.runtime.index} :
          PressureOf(trafficLight'.runtime.nextIndex, perceived')
             >= PressureOf(k, perceived')
    /\ trafficLight'.runtime.repeatCount = 1

\* C29: when the clock of a phase runs out and the phase has the highest
\* pressure, the phase is extended by phaseTime, and counted, as long as its
\* repeat count is below maxRepeatCount; with the count at maxRepeatCount the
\* controller leaves for the phase of the next-highest pressure.  A phase is
\* extended in no other case, and the repeat count never exceeds
\* maxRepeatCount
C29_RepeatBounded ==
    [][/\ PhaseRunsOut =>
             /\ Extended \/ LeftForNextHighest \/ trafficLight'.runtime.transitionPhases # <<>>
             /\ Extended =>
                   /\ trafficLight.runtime.repeatCount < committed.maxRepeatCount
                   /\ \A k \in PhaseIndices :
                         PressureOf(trafficLight.runtime.index, perceived')
                            >= PressureOf(k, perceived')
             /\ StrictlyHighest(trafficLight.runtime.index, perceived') =>
                   IF trafficLight.runtime.repeatCount < committed.maxRepeatCount
                   THEN Extended ELSE LeftForNextHighest
       /\ trafficLight'.runtime.repeatCount <= committed.maxRepeatCount]_vars

\* with the default of six, the controller has just left a phase that still
\* has the highest pressure
C29_Witness ==
    /\ pc = "prepare"
    /\ committed.maxRepeatCount = maxRepeatCount
    /\ trafficLight.runtime.transitionPhases # <<>>
    /\ trafficLight.runtime.repeatCount = 1
    /\ StrictlyHighest(trafficLight.runtime.index, perceived)

\* a phase in its last period: the count is at the maximum of six
C29_LastPeriod ==
    /\ trafficLight.runtime.transitionPhases = <<>>
    /\ trafficLight.runtime.repeatCount = maxRepeatCount
    /\ committed.maxRepeatCount = maxRepeatCount

\* one of the transition times of the run is configured as zero
ZeroTransitionTime ==
    committed.yellowTime = 0 \/ committed.pedestrianClearTime = 0 \/ committed.allRedTime = 0

\* the transition stages that end in the Update from rt to rt1
StagesConsumed(rt, rt1) ==
    IF rt.transitionPhases # <<>>
    THEN Len(rt.transitionPhases) - Len(rt1.transitionPhases)
    ELSE IF rt1.transitionPhases = <<>> THEN 0
    ELSE Len(StagesOf(rt.phases[rt.index + 1], rt.phases[rt1.nextIndex + 1]))
            - Len(rt1.transitionPhases)

\* C30 as the code has it: also with a transition time configured as zero,
\* one Update call ends at most one transition stage; a stage of zero time
\* that is entered stays until the next Update
C30_OneStagePerUpdate ==
    [][(pc = "update" /\ ZeroTransitionTime) =>
          /\ StagesConsumed(trafficLight.runtime, trafficLight'.runtime) \in {0, 1}
          /\ trafficLight.runtime.transitionPhases = <<>> =>
                StagesConsumed(trafficLight.runtime, trafficLight'.runtime) = 0]_vars

\* an Update has entered the second stage of a transition, its time is zero,
\* and it has returned with the stage still to be shown
C30_Witness ==
    /\ pc = "prepare"
    /\ Len(trafficLight.runtime.transitionPhases) = 2
    /\ Len(trafficLight.runtime.transitionTimes) = 2
    /\ trafficLight.runtime.transitionTimes[1] = 0
    /\ trafficLight.runtime.remainingT <= 0
    /\ trafficLight.runtime.nextIndex = 1 /\ trafficLight.runtime.index = 0

\* C30 as it is stated: an Update goes on past a transition stage whose time
\* is zero, so that it never returns in such a stage
C30_ZeroStagesConsumed ==
    (pc = "prepare" /\ trafficLight.runtime.transitionPhases # <<>>)
        => trafficLight.runtime.transitionTimes[1] > 0

\* the arc of the pedestrian's next step lies beyond an end of its lane
RunsOff(w) ==
    LET pr == multiModalRoute[w].PedestrianRoute
        lane == runtime[w].Lane
        v == IF InJunction(lane) /\ RedLight(lane) THEN 2 * walkingV ELSE walkingV
        s == IF pr.route[pr.indexRoute + 1].forward THEN snapshot[w].S + v * DT
             ELSE snapshot[w].S - v * DT
    IN  s < 0 \/ s > Length(lane)

\* lane l is a lane inside a junction whose light is not green
Closed(l) == l # nil /\ InJunction(l) /\ RedLight(l)

\* C31: a walking pedestrian never moves onto a lane inside a junction whose
\* light is not green in that step, and when its arc runs off the end of its
\* lane while the lane of the next segment is such a lane, it leaves the
\* update with speed 0, on the same lane and at the same arc position
C31_HaltsBeforeNoEntry ==
    [][\A w \in Walkers :
         WalkerUpdates(w) =>
            /\ (RunsOff(w) /\ Closed(LaneAhead(w))) =>
                  /\ runtime'[w].V = 0
                  /\ runtime'[w].Lane = runtime[w].Lane
                  /\ runtime'[w].S = runtime[w].S
            /\ runtime'[w].Lane # runtime[w].Lane => ~Closed(runtime'[w].Lane)]_vars

\* the pedestrian stands at the end of W1 with speed 0 while the crossing JU
\* ahead is red
C31_Witness ==
    /\ pc = "step" /\ InternalStep >= 2
    /\ "JU" \in DOMAIN lanes /\ lanes["JU"].lightState = "RED"
    /\ \E w \in Walkers :
         /\ runtime[w].Status = "WALKING" /\ runtime[w].V = 0
         /\ runtime[w].Lane = "W1" /\ runtime[w].S = Length("W1")
         /\ snapshot[w].Lane = "W1" /\ snapshot[w].S = Length("W1")

\* C38: while a person is walking, the lane of the current segment of its
\* pedestrian route is its runtime lane after every update
C38_SegmentIsRuntimeLane ==
    \A w \in Walkers :
       (pc = "step" /\ runtime[w].Status = "WALKING") =>
          LET pr == multiModalRoute[w].PedestrianRoute
          IN  pr.route[pr.indexRoute + 1].Lane = runtime[w].Lane

\* the pedestrian has halted on the crossing JU in front of the red crossing
\* JV after its arc ran past the whole of the short lane WS
C38_HaltedPastShortLane ==
    /\ pc = "step"
    /\ \E w \in Walkers :
         /\ runtime[w].Status = "WALKING" /\ runtime[w].V = 0
         /\ runtime[w].Lane = "JU"
         /\ multiModalRoute[w].PedestrianRoute.indexRoute = 2

\* Person.update of the driving person p returns in the last step of the run
FinalUpdate(p) ==
    UpdateReturned(p) /\ InternalStep + 1 = END_STEP /\ runtime[p].Status = "DRIVING"

\* every node of person p that a vehicle list or its add buffer still holds
\* after the update has been handed to the remove buffer of that list
VehicleNodesRemoved(p) ==
    \A l \in Lanes :
       \A n \in SeqToSet(lanes'[l].vehicles.list) \cup SeqToSet(lanes'[l].vehicles.addBuffer) :
          nodes'[n].Value = p => n \in SeqToSet(lanes'[l].vehicles.removeBuffer)

\* the update ends the trip of person p
TripEnded(p) ==
    /\ runtime'[p].IsTripEnd
    /\ runtime'[p].Status = "SLEEP"
    /\ schedule'[p] = NextTrip(schedule[p])

\* the update leaves person p at the end of its trip
AtTripEnd(p) ==
    LET end == multiModalRoute[p].VehicleRoute.End
    IN  IF end.Aoi # nil THEN runtime'[p].Aoi = end.Aoi /\ runtime'[p].Lane = nil
        ELSE runtime'[p].Lane = end.Lane /\ runtime'[p].S = end.S

\* the update leaves person p on a lane, at more than closeToEnd from the
\* end of its trip
ShortOfTripEnd(p) ==
    LET end == multiModalRoute[p].VehicleRoute.End
    IN  /\ runtime'[p].Lane # nil /\ runtime'[p].Aoi = nil
        /\ ~(ParentRoad(runtime'[p].Lane) = ParentRoad(end.Lane)
             /\ end.S - runtime'[p].S <= closeToEnd)

\* C32 as stated: in the last step every driving vehicle has its lane change
\* cleared, stands at the end of its trip, has its nodes removed from the
\* lane lists and ends its trip
C32_Original ==
    [][\A p \in Persons :
         FinalUpdate(p) =>
            /\ runtime'[p].LC = noLC
            /\ AtTripEnd(p)
            /\ VehicleNodesRemoved(p)
            /\ TripEnded(p)]_vars

\* C32: in the last step every driving vehicle has its lane change cleared
\* and its nodes removed from the lane lists and ends its trip; it enters the
\* AOI its trip ends in, but when its trip ends on a lane it stands at that
\* position only if the step brought it within closeToEnd of it, and falls
\* asleep where the step left it otherwise
C32_ForcedEnd ==
    [][\A p \in Persons :
         FinalUpdate(p) =>
            /\ runtime'[p].LC = noLC
            /\ AtTripEnd(p) \/ (multiModalRoute[p].VehicleRoute.End.Aoi = nil
                                /\ ShortOfTripEnd(p))
            /\ VehicleNodesRemoved(p)
            /\ TripEnded(p)]_vars

\* the last update has put person 2, still on road R1, to sleep on its lane
\* although its trip ends on lane L3
C32_Witness ==
    /\ pc = "update" /\ InternalStep + 1 = END_STEP /\ <<"update", 2>> \in done
    /\ snapshot[2].Status = "DRIVING"
    /\ runtime[2].Status = "SLEEP" /\ runtime[2].IsTripEnd
    /\ runtime[2].Lane # nil /\ ParentRoad(runtime[2].Lane) = "R1"
    /\ multiModalRoute[2].VehicleRoute.End.Lane = "L3"

\* C33: throughout a driving trip VehicleRoute.AtRoad is true exactly when
\* the lane of the vehicle belongs to a road, and false exactly when it is a
\* lane inside a junction
C33_AtRoadIsOnRoad ==
    \A p \in Persons :
       (~crashed /\ runtime[p].Status = "DRIVING") =>
          (multiModalRoute[p].VehicleRoute.AtRoad <=> ~InJunction(runtime[p].Lane))

\* a vehicle of the run is on the lane JL inside junction J1, and its route
\* has passed from the road to the junction
C33_Witness ==
    \E p \in Persons :
       /\ ~crashed /\ runtime[p].Status = "DRIVING" /\ runtime[p].Lane = "JL"
       /\ ~multiModalRoute[p].VehicleRoute.AtRoad

\* the position in the vehicle list of lane n of the first node whose key
\* divided by the length of n is at least that of node x on lane l; one past
\* the end when there is none
FirstNotBehind(l, n, x) ==
    LET nList == lanes[n].vehicles.list
        ahead == {j \in 1..Len(nList) :
                     nodes[nList[j]].S * Length(l) >= nodes[x].S * Length(n)}
    IN  IF ahead = {} THEN Len(nList) + 1
        ELSE CHOOSE j \in ahead : \A k \in ahead : j <= k

\* the two links of node x of lane l towards lane n are the first node of n
\* not behind x and the node of n just before it, nil where there is none
LinksRight(l, which, n, x) ==
    LET nList == lanes[n].vehicles.list
        j == FirstNotBehind(l, n, x)
    IN  /\ nodes[x].links[which].AFTER = (IF j <= Len(nList) THEN nList[j] ELSE NoNode)
        /\ nodes[x].links[which].BEFORE = (IF j > 1 THEN nList[j - 1] ELSE NoNode)

\* C34: once the lanes are prepared and throughout the update that follows,
\* every vehicle node of a driving lane has, on each side with a neighbour
\* lane, as link ahead the first node of the neighbour whose key divided by
\* the lane length is at least its own and as link behind the node of the
\* neighbour just before that one, nil where there is no such node
C34_SideLinks ==
    (LanesPrepared /\ ~crashed) =>
       \A l \in DrivingLanes : \A which \in {"LEFT", "RIGHT"} :
          SideLane(l, which) # nil =>
             \A i \in 1..Len(lanes[l].vehicles.list) :
                LinksRight(l, which, SideLane(l, which), lanes[l].vehicles.list[i])

\* the lanes are prepared, and a vehicle node in the list of L1 has as link
\* ahead a node that is in no list: the lane L2 is empty, and the person of
\* the node on L1 is not driving
C34_StaleLink ==
    /\ LanesPrepared /\ ~crashed
    /\ lanes["L2"].vehicles.list = <<>>
    /\ \E i \in 1..Len(lanes["L1"].vehicles.list) :
          LET x == lanes["L1"].vehicles.list[i]
          IN  /\ nodes[x].links["RIGHT"].AFTER # NoNode
              /\ runtime[nodes[x].Value].Status # "DRIVING"

\* the places of the vehicle lists that hold a node of person p other than
\* its shadow node, and the places of the pedestrian lists that hold a node
\* of person p
PrimaryPlaces(p) ==
    {<<l, i>> \in Lanes \X (1..MaxNodes) :
        /\ i <= Len(lanes[l].vehicles.list)
        /\ nodes[lanes[l].vehicles.list[i]].Value = p
        /\ lanes[l].vehicles.list[i] # vehicle[p].shadowNode}

PedestrianPlaces(p) ==
    {<<l, i>> \in Lanes \X (1..MaxNodes) :
        /\ i <= Len(lanes[l].pedestrians.list)
        /\ nodes[lanes[l].pedestrians.list[i]].Value = p}

\* C35: at the end of every prepare each person has at most one vehicle node
\* that is not a shadow node and at most one pedestrian node in the lists of
\* all lanes, and a person whose committed status is SLEEP or WAIT_ROUTE has
\* no node in any list
C35_NodesOfPerson ==
    (EndOfPrepare /\ ~crashed) =>
       \A p \in Persons :
          /\ Cardinality(PrimaryPlaces(p)) <= 1
          /\ Cardinality(PedestrianPlaces(p)) <= 1
          /\ snapshot[p].Status \in {"SLEEP", "WAIT_ROUTE"} =>
                \A l \in Lanes :
                   /\ NodesOwnedBy(lanes[l].vehicles.list, p) = {}
                   /\ NodesOwnedBy(lanes[l].pedestrians.list, p) = {}

\* at the end of a prepare a person sleeps, or waits for its route, while a
\* vehicle node of it is still in the list of a driving lane
C35_VehicleLeftBehind ==
    /\ EndOfPrepare /\ ~crashed
    /\ \E p \in Persons :
          /\ snapshot[p].Status \in {"SLEEP", "WAIT_ROUTE"}
          /\ PrimaryPlaces(p) # {}

\* the vehicle node of person p is in the list of another lane than the lane
\* of its snapshot, the lane every removal of the node is asked of
AttachedElsewhere(p) ==
    /\ vehicle[p].node # NoNode /\ snapshot[p].Lane # nil
    /\ nodes[vehicle[p].node].parent \notin {NoList, <<snapshot[p].Lane, "vehicles">>}

\* C36: no update asks a lane to remove a node that is in the list of
\* another lane: the process never aborts in an update of a person whose
\* vehicle node is attached elsewhere than to the lane of its snapshot
C36_NoListAbort ==
    ~(/\ crashed /\ pc = "update"
      /\ \E p \in Persons : <<"update", p>> \notin done /\ AttachedElsewhere(p))

\* person 2 waits on the walking lane W1 for the route of a trip by car while
\* its vehicle node is still in the list of L1, and the process has aborted
C36_RemoveFromWalkingLane ==
    /\ crashed /\ pc = "update"
    /\ runtime[2].Status = "WAIT_ROUTE" /\ snapshot[2].Lane = "W1"
    /\ multiModalRoute[2].ok /\ multiModalRoute[2].MultiModalType = "DRIVE"
    /\ nodes[vehicle[2].node].parent = <<"L1", "vehicles">>
\* C37: after a fixed program was replaced, every prepare that finds a
\* running program with an existing phase writes to each lane the times of
\* the snapshot plus the offset computed from the program of the snapshot,
\* and no prepare aborts on an index outside the offset table.
C37_CurrentOffsets ==
    /\ (pc = "update" /\ Running(trafficLight)) =>
          \A i \in 1..Len(ProgramLanes) :
             LET off == TimeBeforeChange(trafficLight.snapshot.tl, Len(ProgramLanes))
                          [i][trafficLight.snapshot.tlStep + 1]
             IN  /\ lanes[ProgramLanes[i]].lightStateRemainingTime =
                       trafficLight.snapshot.tlRemainingT + off
                 /\ lanes[ProgramLanes[i]].lightStateTotalTime =
                       trafficLight.snapshot.tlTotalTime + off
    /\ ~(crashed /\ ~PhaseOutOfRange(trafficLight) /\ TableOutOfRange(trafficLight))

\* a prepare has written times with the offsets of the first program while
\* another program runs
C37_StaleOffsets ==
    /\ pc = "update" /\ Running(trafficLight)
    /\ trafficLight.snapshot.tl = LongProgram
    /\ Len(trafficLight.timeBeforeChange) > Len(ProgramLanes)
    /\ lanes[ProgramLanes[1]].lightStateRemainingTime =
          trafficLight.snapshot.tlRemainingT
            + TimeBeforeChange(FixedProgram, Len(ProgramLanes))
                [1][trafficLight.snapshot.tlStep + 1]
    /\ TimeBeforeChange(FixedProgram, Len(ProgramLanes))[1][trafficLight.snapshot.tlStep + 1]
          # TimeBeforeChange(LongProgram, Len(ProgramLanes))
              [1][trafficLight.snapshot.tlStep + 1]

\* the running program has a phase for which the offset table has no entry
C37_TableTooShort ==
    /\ crashed /\ ~PhaseOutOfRange(trafficLight) /\ TableOutOfRange(trafficLight)
    /\ trafficLight.snapshot.tl = LongProgram

\* C39: an accepted set-traffic-light request with a program, a phase index
\* of that program and a remaining time leaves the controller with that
\* program, that phase index and that remaining time to start with at the
\* next update, whether or not a program was running.
C39_SetStartsAtPhase ==
    (/\ pc = "step" /\ response # <<>>
     /\ response[Len(response)].method = "SetTrafficLight"
     /\ response[Len(response)].code = "ok"
     /\ response[Len(response)].prog # NoProgram
     /\ response[Len(response)].index < Len(response[Len(response)].prog)) =>
       /\ trafficLight.buffer.tl = response[Len(response)].prog
       /\ trafficLight.buffer.tlStep = response[Len(response)].index
       /\ trafficLight.buffer.tlRemainingT = response[Len(response)].remaining

\* a request made while no program runs was accepted and its phase dropped
C39_PhaseDropped ==
    /\ pc = "step" /\ response # <<>>
    /\ response[Len(response)].method = "SetTrafficLight"
    /\ response[Len(response)].code = "ok"
    /\ response[Len(response)].prog = LongProgram
    /\ response[Len(response)].index = 2
    /\ trafficLight.runtime.tl = NoProgram
    /\ trafficLight.buffer.tl = LongProgram
    /\ trafficLight.buffer.tlStep = trafficLight.JunctionID % Len(LongProgram)

\* C40: no request to the junction makes the process abort, neither while
\* it is handled nor in a later prepare or update.
C40_NeverAborts == ~crashed

\* a prepare aborted on a phase index that a request had set
C40_PhaseBeyondProgram ==
    /\ crashed /\ pc = "prepare"
    /\ PhaseOutOfRange(trafficLight)
    /\ trafficLight.snapshot.tlRemainingT > 0


====
